---------------------------- MODULE Spec2Model ----------------------------
(***************************************************************************)
(* A model of ccpoviz/chainoptions.py, the options chainer: a recursive,   *)
(* type-directed merge of override layers into a default configuration    *)
(* tree, driven by meta-options that live beside the options they govern. *)
(*                                                                         *)
(* A Python value is a pair <<python type, payload>>:                      *)
(*   int    the integer                                                    *)
(*   float  twice the value (the model's floats are the multiples of 0.5,  *)
(*          so <<"float", 3>> stands for 1.5)                              *)
(*   bool   TRUE or FALSE                                                  *)
(*   str    the string                                                     *)
(*   list   the sequence of elements                                       *)
(*   dict   a function from key strings to values                          *)
(* A call that can raise, or whose result depends on the iteration order   *)
(* of a dict or a set, is modelled by the set of its possible outcomes.    *)
(***************************************************************************)
EXTENDS Integers, Sequences, FiniteSets, TLC

VARIABLES ops, pc, d, i, exc, shared

vars == <<ops, pc, d, i, exc, shared>>

---------------------------------------------------------------------------
(* Python values *)

TypeName(x) == x[1]
Payload(x) == x[2]

PyInt(n) == <<"int", n>>
PyFloat(h) == <<"float", h>>
PyBool(b) == <<"bool", b>>
PyStr(s) == <<"str", s>>
PyList(q) == <<"list", q>>
PyDict(f) == <<"dict", f>>

(* the empty dict and a dict literal from a set of <<key, value>> pairs *)
EmptyDict == PyDict(<<>>)
DictOf(pairs) ==
    PyDict([k \in {p[1] : p \in pairs} |-> (CHOOSE p \in pairs : p[1] = k)[2]])

Keys(m) == DOMAIN Payload(m)

(* dict(m) with m[k] = x set *)
DictSet(m, k, x) ==
    PyDict([j \in Keys(m) \cup {k} |-> IF j = k THEN x ELSE Payload(m)[j]])

---------------------------------------------------------------------------
(* Outcomes of a call: a returned value or a raised exception *)

Ok(x) == [ok |-> TRUE, val |-> x]
Raise(e, a) == [ok |-> FALSE, exc |-> e, args |-> a]

UpdateError(tag, msg) == Raise("UpdateError", <<tag, msg>>)
DefaultError(msg) == Raise("DefaultError", <<msg>>)

Oks(outs) == {o \in outs : o.ok}
Raised(outs) == {o \in outs : ~o.ok}

---------------------------------------------------------------------------
(* String primitives used by the module *)

(* s.startswith(p) *)
StartsWith(s, p) == Len(s) >= Len(p) /\ SubSeq(s, 1, Len(p)) = p

(* s[n:] *)
SliceFrom(s, n) == SubSeq(s, n + 1, Len(s))

(* s.find(sub): the lowest 0-based index where sub occurs, or -1 *)
Find(s, sub) ==
    LET hits == {j \in 0..(Len(s) - Len(sub)) : SubSeq(s, j + 1, j + Len(sub)) = sub}
    IN IF hits = {} THEN -1 ELSE CHOOSE j \in hits : \A h \in hits : j <= h

Digits == "0123456789"
DigitChar(n) == SubSeq(Digits, n + 1, n + 1)
IsDigit(c) == \E n \in 0..9 : DigitChar(n) = c
DigitVal(c) == CHOOSE n \in 0..9 : DigitChar(n) = c

RECURSIVE NatStr(_)
NatStr(n) == IF n < 10 THEN DigitChar(n) ELSE NatStr(n \div 10) \o DigitChar(n % 10)

(* str(n) of an int *)
IntStr(n) == IF n < 0 THEN "-" \o NatStr(-n) ELSE NatStr(n)

(* str(x) of a float held as twice its value *)
FloatStr(h) ==
    LET a == IF h < 0 THEN -h ELSE h
        body == NatStr(a \div 2) \o (IF a % 2 = 0 THEN ".0" ELSE ".5")
    IN IF h < 0 THEN "-" \o body ELSE body

---------------------------------------------------------------------------
(* Type determination *)

_NUMBER == 1
_BOOL == 2
_STRING == 3
_ATOMS == {1, 2, 3}
_LIST == 4
_MAP == 5

(* what _find_type yields where the code raises ValueError instead of      *)
(* returning: the node is none of the acceptable types                     *)
_UNACCEPTABLE == 0

(* variant: the Number test comes first (a bool is an instance of int) *)
FindTypeNumberFirst(node) ==
    CASE TypeName(node) \in {"int", "float", "bool"} -> _NUMBER
      [] TypeName(node) = "str" -> _STRING
      [] TypeName(node) = "list" -> _LIST
      [] TypeName(node) = "dict" -> _MAP
      [] OTHER -> _UNACCEPTABLE

_find_type(node) ==
    CASE TypeName(node) = "bool" -> _BOOL
      [] TypeName(node) = "int" \/ TypeName(node) = "float" -> _NUMBER
      [] TypeName(node) = "str" -> _STRING
      [] TypeName(node) = "list" -> _LIST
      [] TypeName(node) = "dict" -> _MAP
      [] OTHER -> _UNACCEPTABLE

ValueErrorUnacceptable(node) ==
    Raise("ValueError", <<"unacceptable type <type '" \o TypeName(node) \o "'>">>)

---------------------------------------------------------------------------
(* Python's conversions, as type(existing)(new) applies them *)

(* s.strip() for blanks *)
RECURSIVE LStrip(_)
LStrip(s) == IF Len(s) > 0 /\ SubSeq(s, 1, 1) = " " THEN LStrip(SliceFrom(s, 1)) ELSE s
RECURSIVE RStrip(_)
RStrip(s) ==
    IF Len(s) > 0 /\ SubSeq(s, Len(s), Len(s)) = " "
    THEN RStrip(SubSeq(s, 1, Len(s) - 1)) ELSE s
Strip(s) == RStrip(LStrip(s))

AllDigits(s) == Len(s) > 0 /\ \A j \in 1..Len(s) : IsDigit(SubSeq(s, j, j))

RECURSIVE DigitsVal(_)
DigitsVal(s) ==
    IF Len(s) = 0 THEN 0
    ELSE 10 * DigitsVal(SubSeq(s, 1, Len(s) - 1)) + DigitVal(SubSeq(s, Len(s), Len(s)))

HasSign(s) == Len(s) > 0 /\ SubSeq(s, 1, 1) \in {"+", "-"}
Unsigned(s) == IF HasSign(s) THEN SliceFrom(s, 1) ELSE s
Signed(s, n) == IF HasSign(s) /\ SubSeq(s, 1, 1) = "-" THEN -n ELSE n

(* int(s) of a string: blanks stripped, an optional sign, decimal digits *)
IntOfStr(s) ==
    LET u == Strip(s)
    IN IF AllDigits(Unsigned(u))
       THEN Ok(PyInt(Signed(u, DigitsVal(Unsigned(u)))))
       ELSE Raise("ValueError", <<"invalid literal for int() with base 10: '" \o s \o "'">>)

(* float(s) of a string in plain decimal notation: digits, then optionally *)
(* a point and digits.  The fraction is read on the model's grid of halves *)
(* (a first fractional digit of 5 or more reads as .5); the strings the    *)
(* model feeds in denote multiples of 0.5.                                 *)
FloatOfStr(s) ==
    LET u == Unsigned(Strip(s))
        dot == Find(u, ".")
        whole == IF dot = -1 THEN u ELSE SubSeq(u, 1, dot)
        frac == IF dot = -1 THEN "" ELSE SliceFrom(u, dot + 1)
        half == IF Len(frac) > 0 /\ DigitVal(SubSeq(frac, 1, 1)) >= 5 THEN 1 ELSE 0
        wellformed == /\ AllDigits(whole)
                      /\ frac = "" \/ AllDigits(frac)
    IN IF wellformed
       THEN Ok(PyFloat(Signed(Strip(s), 2 * DigitsVal(whole) + half)))
       ELSE Raise("ValueError", <<"could not convert string to float: " \o s>>)

(* all orders in which the elements of a set can be iterated *)
RECURSIVE Orders(_)
Orders(S) ==
    IF S = {} THEN {<<>>}
    ELSE UNION {{<<x>> \o p : p \in Orders(S \ {x})} : x \in S}

(* the strings repr(x) can yield; a dict's entries come in iteration order, *)
(* which is not fixed by its contents                                       *)
RECURSIVE Repr(_)
RECURSIVE JoinReprs(_)
JoinReprs(q) ==
    IF Len(q) = 0 THEN {""}
    ELSE IF Len(q) = 1 THEN Repr(q[1])
    ELSE {a \o ", " \o b : a \in Repr(q[1]), b \in JoinReprs(Tail(q))}
RECURSIVE JoinItems(_, _)
JoinItems(m, order) ==
    IF Len(order) = 0 THEN {""}
    ELSE LET k == order[1]
             item == {"'" \o k \o "': " \o r : r \in Repr(Payload(m)[k])}
         IN IF Len(order) = 1 THEN item
            ELSE {a \o ", " \o b : a \in item, b \in JoinItems(m, Tail(order))}
Repr(x) ==
    CASE TypeName(x) = "int" -> {IntStr(Payload(x))}
      [] TypeName(x) = "float" -> {FloatStr(Payload(x))}
      [] TypeName(x) = "bool" -> {IF Payload(x) THEN "True" ELSE "False"}
      [] TypeName(x) = "str" -> {"'" \o Payload(x) \o "'"}
      [] TypeName(x) = "list" -> {"[" \o r \o "]" : r \in JoinReprs(Payload(x))}
      [] TypeName(x) = "dict" ->
           UNION {{"{" \o r \o "}" : r \in JoinItems(x, o)} : o \in Orders(Keys(x))}
      [] OTHER -> {"None"}

(* str(x) *)
StrOf(x) == IF TypeName(x) = "str" THEN {Payload(x)} ELSE Repr(x)

(* bool(x): never raises *)
BoolOf(x) ==
    CASE TypeName(x) = "bool" -> Payload(x)
      [] TypeName(x) \in {"int", "float"} -> Payload(x) # 0
      [] TypeName(x) = "str" -> Payload(x) # ""
      [] TypeName(x) = "list" -> Len(Payload(x)) > 0
      [] TypeName(x) = "dict" -> Keys(x) # {}
      [] OTHER -> FALSE

ArgTypeError(fn, x) ==
    Raise("TypeError", <<fn \o "() argument must be a string or a number, not '"
                           \o TypeName(x) \o "'">>)

(* the outcomes of type(existing)(new) *)
Convert(existing, new) ==
    CASE TypeName(existing) = "bool" -> {Ok(PyBool(BoolOf(new)))}
      [] TypeName(existing) = "str" -> {Ok(PyStr(s)) : s \in StrOf(new)}
      [] TypeName(existing) = "int" ->
           (CASE TypeName(new) = "bool" -> {Ok(PyInt(IF Payload(new) THEN 1 ELSE 0))}
              [] TypeName(new) = "int" -> {Ok(new)}
              [] TypeName(new) = "float" ->
                   {Ok(PyInt(IF Payload(new) < 0 THEN -((-Payload(new)) \div 2) ELSE Payload(new) \div 2))}
              [] TypeName(new) = "str" -> {IntOfStr(Payload(new))}
              [] OTHER -> {ArgTypeError("int", new)})
      [] TypeName(existing) = "float" ->
           (CASE TypeName(new) = "bool" -> {Ok(PyFloat(IF Payload(new) THEN 2 ELSE 0))}
              [] TypeName(new) = "int" -> {Ok(PyFloat(2 * Payload(new)))}
              [] TypeName(new) = "float" -> {Ok(new)}
              [] TypeName(new) = "str" -> {FloatOfStr(Payload(new))}
              [] OTHER -> {ArgTypeError("float", new)})

---------------------------------------------------------------------------
(* The chainer's attributes, as ChainOptions.__init__ defaults them *)

separator == "..."
proto_tag == "prototype"
default_list_update == PyStr("overwrite")
default_map_update == PyStr("overwrite")
default_coercion == PyBool(FALSE)

(* Python's None: what proto holds in _get_proto until something sets it *)
PyNone == <<"NoneType", "None">>

(* context.get(key, default) *)
CtxGet(context, key, default) ==
    IF key \in Keys(context) THEN Payload(context)[key] ELSE default

(* tag[-1] *)
Last(tag) == tag[Len(tag)]

---------------------------------------------------------------------------
(* Error reporting *)

_report_type_error(tag, default) ==
    LET default_type == _find_type(default)
        expectation == CASE default_type = _NUMBER -> "number"
                         [] default_type = _BOOL -> "boolean"
                         [] default_type = _STRING -> "string"
                         [] default_type = _LIST -> "list"
                         [] default_type = _MAP -> "map"
    IN IF default_type = _UNACCEPTABLE THEN ValueErrorUnacceptable(default)
       ELSE UpdateError(tag, "a value of type " \o expectation \o " is expected")

---------------------------------------------------------------------------
(* Prototype resolution *)

(* variant: the meta-options of the prototype keep their keys in the context *)
VirtContextUncut(tag, context) ==
    LET virt_prefix == tag \o separator \o proto_tag \o separator
        from == {k \in Keys(context) : StartsWith(k, virt_prefix)}
    IN PyDict([k \in from |-> Payload(context)[k]])

(* the virtual context: the meta-options of the prototype, re-keyed *)
VirtContext(tag, context) ==
    LET virt_prefix == tag \o separator \o proto_tag \o separator
        from == {k \in Keys(context) : StartsWith(k, virt_prefix)}
        cut(k) == SliceFrom(k, Len(tag \o separator))
    IN PyDict([j \in {cut(k) : k \in from} |->
                  Payload(context)[CHOOSE k \in from : cut(k) = j]])

(* the lookup existing[raw_value] of a prototype-key, inside the try block *)
ProtoByKey(tag, existing, raw_value) ==
    LET existing_type == _find_type(existing)
        notfound == {DefaultError("The prototype key " \o s \o " cannot be found for " \o tag)
                       : s \in StrOf(raw_value)}
    IN CASE existing_type = _MAP ->
              IF TypeName(raw_value) \in {"list", "dict"}
              THEN {Raise("TypeError", <<"unhashable type: '" \o TypeName(raw_value) \o "'">>)}
              ELSE IF TypeName(raw_value) = "str" /\ Payload(raw_value) \in Keys(existing)
              THEN {Ok(Payload(existing)[Payload(raw_value)])}
              ELSE {Raise("KeyError", <<r>>) : r \in Repr(raw_value)}
         [] existing_type = _LIST ->
              IF TypeName(raw_value) # "int" THEN notfound
              ELSE LET n == Len(Payload(existing))
                       at == IF Payload(raw_value) < 0 THEN Payload(raw_value) + n ELSE Payload(raw_value)
                   IN IF at >= 0 /\ at < n THEN {Ok(Payload(existing)[at + 1])} ELSE notfound
         [] OTHER -> notfound

(* variant: an empty list or map yields no prototype instead of an error *)
ProtoFromExistingUnchecked(tag, existing) ==
    LET existing_type == _find_type(existing)
    IN CASE existing_type = _LIST ->
              IF Len(Payload(existing)) > 0 THEN {Ok(Payload(existing)[1])} ELSE {Ok(PyNone)}
         [] existing_type = _MAP ->
              IF Keys(existing) # {} THEN {Ok(Payload(existing)[k]) : k \in Keys(existing)}
              ELSE {Ok(PyNone)}
         [] OTHER -> {Ok(PyNone)}

(* the prototype taken from the existing entries when no meta-setting is given *)
ProtoFromExisting(tag, existing) ==
    LET existing_type == _find_type(existing)
        empty == {DefaultError("No prototype/basis given for empty list/map " \o tag)}
    IN CASE existing_type = _LIST ->
              IF Len(Payload(existing)) > 0 THEN {Ok(Payload(existing)[1])} ELSE empty
         [] existing_type = _MAP ->
              IF Keys(existing) # {} THEN {Ok(Payload(existing)[k]) : k \in Keys(existing)} ELSE empty
         [] OTHER -> {Ok(PyNone)}

(* outcomes of _get_proto: Ok(<<proto, virt_context>>) or a raised error. *)
(* proto starts as None and None is what tells the loop that no           *)
(* meta-setting has been taken yet, so a meta-setting whose value is None  *)
(* counts as not given.                                                    *)
_get_proto(tag, context, existing) ==
    LET proto_meta == tag \o separator \o proto_tag
        key_meta == tag \o separator \o proto_tag \o "-key"
        given == CtxGet(context, proto_meta, PyNone)
        looked ==
            IF key_meta \in Keys(context)
            THEN IF given # PyNone
                 THEN {DefaultError("Meta-setting " \o key_meta \o " duplicates with others")}
                 ELSE ProtoByKey(tag, existing, Payload(context)[key_meta])
            ELSE {Ok(given)}
        protos ==
            Raised(looked) \cup
            UNION {IF o.val = PyNone THEN ProtoFromExisting(tag, existing) ELSE {o}
                     : o \in Oks(looked)}
    IN IF _find_type(existing) = _UNACCEPTABLE THEN {ValueErrorUnacceptable(existing)}
       ELSE Raised(protos) \cup
            {Ok(<<o.val, VirtContext(tag, context)>>) : o \in Oks(protos)}

---------------------------------------------------------------------------
(* Node update.  Each operator yields the set of outcomes of the method of *)
(* the same name: Ok(merged node) or the exception raised.                 *)

(* hash/eq of atoms as set() sees them: 1 == 1.0 == True *)
Hashable(x) == TypeName(x) \notin {"list", "dict"}
HashKey(x) ==
    CASE TypeName(x) = "str" -> <<"s", Payload(x)>>
      [] TypeName(x) = "int" -> <<"n", 2 * Payload(x)>>
      [] TypeName(x) = "float" -> <<"n", Payload(x)>>
      [] TypeName(x) = "bool" -> <<"n", IF Payload(x) THEN 2 ELSE 0>>
      [] OTHER -> <<"o", TypeName(x)>>

(* variant: the lists are joined and reordered, duplicates kept *)
ListOfSetKeepsDuplicates(q) ==
    {[n \in 1..Len(o) |-> q[o[n]]] : o \in Orders(1..Len(q))}

(* list(set(q)): one element per class of equal values, the one met first, *)
(* in whatever order the set iterates                                      *)
ListOfSet(q) ==
    LET firsts == {j \in 1..Len(q) : \A h \in 1..(j - 1) : HashKey(q[h]) # HashKey(q[j])}
    IN {[n \in 1..Len(o) |-> q[o[n]]] : o \in Orders(firsts)}

RECURSIVE _update_node(_, _, _, _)
RECURSIVE _update_list(_, _, _, _)
RECURSIVE _update_map(_, _, _, _)
RECURSIVE MergeElems(_, _, _, _, _)
RECURSIVE MergeEntry(_, _, _, _, _, _)
RECURSIVE MergedMaps(_, _, _)

(* variant: the atom's old value is returned where the new one should be *)
UpdateAtomKeepsExisting(existing, new, tag, context) ==
    IF _find_type(new) = _find_type(existing) THEN {Ok(existing)}
    ELSE {_report_type_error(tag, existing)}

(* variant: whatever the layer gives for an atom is taken as it is *)
UpdateAtomStoresAny(existing, new, tag, context) ==
    IF _find_type(new) = _UNACCEPTABLE THEN {ValueErrorUnacceptable(new)} ELSE {Ok(new)}

_update_atom(existing, new, tag, context) ==
    LET new_type == _find_type(new)
        existing_type == _find_type(existing)
        coercion == CtxGet(context, Last(tag) \o separator \o "coercion", default_coercion)
    IN IF new_type = _UNACCEPTABLE THEN {ValueErrorUnacceptable(new)}
       ELSE IF new_type = existing_type THEN {Ok(new)}
       ELSE IF BoolOf(coercion)
       THEN {IF ~o.ok /\ o.exc = "ValueError" THEN _report_type_error(tag, existing) ELSE o
               : o \in Convert(existing, new)}
       ELSE {_report_type_error(tag, existing)}

(* the list comprehension over enumerate(new), from element n (1-based)    *)
(* on: Ok(sequence of merged elements) or the first exception raised       *)
MergeElems(proto, proto_context, new, tag, n) ==
    IF n > Len(Payload(new)) THEN {Ok(<<>>)}
    ELSE LET heads == _update_node(proto, Payload(new)[n], tag \o <<n - 1, proto_tag>>,
                                   proto_context)
             tails == MergeElems(proto, proto_context, new, tag, n + 1)
         IN Raised(heads) \cup
            (IF Oks(heads) = {} THEN {}
             ELSE Raised(tails) \cup
                  {Ok(<<h.val>> \o r.val) : h \in Oks(heads), r \in Oks(tails)})

(* variant: 'prepend' and 'append' taken for each other *)
CombineListsSwapped(existing, new_list, update) ==
    CASE update = PyStr("overwrite") -> {Ok(PyList(new_list))}
      [] update = PyStr("prepend") -> {Ok(PyList(Payload(existing) \o new_list))}
      [] update = PyStr("append") -> {Ok(PyList(new_list \o Payload(existing)))}
      [] update = PyStr("unique") ->
           IF \A j \in 1..Len(Payload(existing) \o new_list) :
                 Hashable((Payload(existing) \o new_list)[j])
           THEN {Ok(PyList(q)) : q \in ListOfSet(Payload(existing) \o new_list)}
           ELSE {DefaultError("update method unique is for atom lists only")}
      [] OTHER -> {DefaultError("Invalid list update value " \o s) : s \in StrOf(update)}

(* variant: a list update the default cannot have is reported as a user's error *)
CombineListsUpdateError(existing, new_list, update) ==
    CASE update = PyStr("overwrite") -> {Ok(PyList(new_list))}
      [] update = PyStr("prepend") -> {Ok(PyList(new_list \o Payload(existing)))}
      [] update = PyStr("append") -> {Ok(PyList(Payload(existing) \o new_list))}
      [] update = PyStr("unique") ->
           IF \A j \in 1..Len(Payload(existing) \o new_list) : Hashable((Payload(existing) \o new_list)[j])
           THEN {Ok(PyList(q)) : q \in ListOfSet(Payload(existing) \o new_list)}
           ELSE {UpdateError(<<"">>, "update method unique is for atom lists only")}
      [] OTHER -> {UpdateError(<<"">>, "Invalid list update value " \o s) : s \in StrOf(update)}

(* variant: overwriting with an empty list leaves the existing list in place *)
CombineListsKeepsOnEmpty(existing, new_list, update) ==
    CASE update = PyStr("overwrite") ->
           IF Len(new_list) = 0 THEN {Ok(existing)} ELSE {Ok(PyList(new_list))}
      [] update = PyStr("prepend") -> {Ok(PyList(new_list \o Payload(existing)))}
      [] update = PyStr("append") -> {Ok(PyList(Payload(existing) \o new_list))}
      [] update = PyStr("unique") ->
           IF \A j \in 1..Len(Payload(existing) \o new_list) : Hashable((Payload(existing) \o new_list)[j])
           THEN {Ok(PyList(q)) : q \in ListOfSet(Payload(existing) \o new_list)}
           ELSE {DefaultError("update method unique is for atom lists only")}
      [] OTHER -> {DefaultError("Invalid list update value " \o s) : s \in StrOf(update)}

(* the combination of the existing list and the merged new one *)
CombineLists(existing, new_list, update) ==
    CASE update = PyStr("overwrite") -> {Ok(PyList(new_list))}
      [] update = PyStr("prepend") -> {Ok(PyList(new_list \o Payload(existing)))}
      [] update = PyStr("append") -> {Ok(PyList(Payload(existing) \o new_list))}
      [] update = PyStr("unique") ->
           IF \A j \in 1..Len(Payload(existing) \o new_list) : Hashable((Payload(existing) \o new_list)[j])
           THEN {Ok(PyList(q)) : q \in ListOfSet(Payload(existing) \o new_list)}
           ELSE {DefaultError("update method unique is for atom lists only")}
      [] OTHER -> {DefaultError("Invalid list update value " \o s) : s \in StrOf(update)}

RECURSIVE MergeElemsByPosition(_, _, _, _, _, _)

(* variant: an element of the override is merged into the element at its   *)
(* own position in the existing list, and into the prototype only beyond   *)
(* the existing list's end                                                 *)
MergeElemsByPosition(existing, proto, proto_context, new, tag, n) ==
    IF n > Len(Payload(new)) THEN {Ok(<<>>)}
    ELSE LET base == IF n <= Len(Payload(existing)) THEN Payload(existing)[n] ELSE proto
             heads == _update_node(base, Payload(new)[n], tag \o <<n - 1, proto_tag>>,
                                   proto_context)
             tails == MergeElemsByPosition(existing, proto, proto_context, new, tag, n + 1)
         IN Raised(heads) \cup
            (IF Oks(heads) = {} THEN {}
             ELSE Raised(tails) \cup
                  {Ok(<<h.val>> \o r.val) : h \in Oks(heads), r \in Oks(tails)})

UpdateListByPosition(existing, new, tag, context) ==
    LET new_type == _find_type(new)
        tag_in_context == Last(tag)
        protos == _get_proto(tag_in_context, context, existing)
        new_lists == UNION {MergeElemsByPosition(existing, o.val[1], o.val[2], new, tag, 1)
                              : o \in Oks(protos)}
        update == CtxGet(context, tag_in_context \o separator \o "update",
                         default_list_update)
    IN IF new_type = _UNACCEPTABLE THEN {ValueErrorUnacceptable(new)}
       ELSE IF new_type # _LIST THEN {_report_type_error(tag, existing)}
       ELSE Raised(protos) \cup Raised(new_lists) \cup
            UNION {CombineLists(existing, o.val, update) : o \in Oks(new_lists)}

_update_list(existing, new, tag, context) ==
    LET new_type == _find_type(new)
        tag_in_context == Last(tag)
        protos == _get_proto(tag_in_context, context, existing)
        new_lists == UNION {MergeElems(o.val[1], o.val[2], new, tag, 1) : o \in Oks(protos)}
        update == CtxGet(context, tag_in_context \o separator \o "update",
                         default_list_update)
    IN IF new_type = _UNACCEPTABLE THEN {ValueErrorUnacceptable(new)}
       ELSE IF new_type # _LIST THEN {_report_type_error(tag, existing)}
       ELSE Raised(protos) \cup Raised(new_lists) \cup
            UNION {CombineLists(existing, o.val, update) : o \in Oks(new_lists)}

(* variant: a key the map lacks is added as given when the map is not extensible *)
MergeEntryAdmitsNewKeys(existing, new, tag, update, proto_pair, k) ==
    IF Find(k, separator) # -1
    THEN {UpdateError(tag, "users are not supposed to taint meta-options")}
    ELSE IF k \in Keys(existing)
    THEN _update_node(Payload(existing)[k], Payload(new)[k], tag \o <<k>>, existing)
    ELSE IF update = PyStr("extend")
    THEN _update_node(proto_pair[1], Payload(new)[k], tag \o <<k, proto_tag>>, proto_pair[2])
    ELSE {Ok(Payload(new)[k])}

(* variant: an extensible map never takes a new key *)
MergeEntryNeverExtends(existing, new, tag, update, proto_pair, k) ==
    IF Find(k, separator) # -1
    THEN {UpdateError(tag, "users are not supposed to taint meta-options")}
    ELSE IF k \in Keys(existing)
    THEN _update_node(Payload(existing)[k], Payload(new)[k], tag \o <<k>>, existing)
    ELSE {UpdateError(tag \o <<k>>, "invalid option")}

(* variant: only the keys the map lacks are checked for the separator *)
MergeEntryChecksNewKeysOnly(existing, new, tag, update, proto_pair, k) ==
    IF k \in Keys(existing)
    THEN _update_node(Payload(existing)[k], Payload(new)[k], tag \o <<k>>, existing)
    ELSE IF Find(k, separator) # -1
    THEN {UpdateError(tag, "users are not supposed to taint meta-options")}
    ELSE IF update = PyStr("extend")
    THEN _update_node(proto_pair[1], Payload(new)[k], tag \o <<k, proto_tag>>, proto_pair[2])
    ELSE {UpdateError(tag \o <<k>>, "invalid option")}

(* variant: no key is checked for the separator *)
MergeEntryNoSeparatorCheck(existing, new, tag, update, proto_pair, k) ==
    IF k \in Keys(existing)
    THEN _update_node(Payload(existing)[k], Payload(new)[k], tag \o <<k>>, existing)
    ELSE IF update = PyStr("extend")
    THEN _update_node(proto_pair[1], Payload(new)[k], tag \o <<k, proto_tag>>, proto_pair[2])
    ELSE {UpdateError(tag \o <<k>>, "invalid option")}

(* variant: the tag of an entry added by extension is the map's tag and    *)
(* the key, with no prototype marker after it                              *)
MergeEntryNoMarker(existing, new, tag, update, proto_pair, k) ==
    IF Find(k, separator) # -1
    THEN {UpdateError(tag, "users are not supposed to taint meta-options")}
    ELSE IF k \in Keys(existing)
    THEN _update_node(Payload(existing)[k], Payload(new)[k], tag \o <<k>>, existing)
    ELSE IF update = PyStr("extend")
    THEN _update_node(proto_pair[1], Payload(new)[k], tag \o <<k>>, proto_pair[2])
    ELSE {UpdateError(tag \o <<k>>, "invalid option")}

(* variant: under extend an existing key is merged in the virtual context *)
(* of the prototype, as when it was added                                  *)
MergeEntryPrototypeAgain(existing, new, tag, update, proto_pair, k) ==
    IF Find(k, separator) # -1
    THEN {UpdateError(tag, "users are not supposed to taint meta-options")}
    ELSE IF k \in Keys(existing) /\ update = PyStr("extend")
    THEN _update_node(Payload(existing)[k], Payload(new)[k], tag \o <<k, proto_tag>>,
                      proto_pair[2])
    ELSE IF k \in Keys(existing)
    THEN _update_node(Payload(existing)[k], Payload(new)[k], tag \o <<k>>, existing)
    ELSE IF update = PyStr("extend")
    THEN _update_node(proto_pair[1], Payload(new)[k], tag \o <<k, proto_tag>>, proto_pair[2])
    ELSE {UpdateError(tag \o <<k>>, "invalid option")}

(* one pass of the loop body of _update_map, for the entry k of new *)
MergeEntry(existing, new, tag, update, proto_pair, k) ==
    IF Find(k, separator) # -1
    THEN {UpdateError(tag, "users are not supposed to taint meta-options")}
    ELSE IF k \in Keys(existing)
    THEN _update_node(Payload(existing)[k], Payload(new)[k], tag \o <<k>>, existing)
    ELSE IF update = PyStr("extend")
    THEN _update_node(proto_pair[1], Payload(new)[k], tag \o <<k, proto_tag>>, proto_pair[2])
    ELSE {UpdateError(tag \o <<k>>, "invalid option")}

(* variant: new_map starts empty instead of as a copy of existing *)
RECURSIVE MergedMapsFromEmpty(_, _, _)
MergedMapsFromEmpty(existing, entries, ks) ==
    IF ks = {} THEN {EmptyDict}
    ELSE LET k == CHOOSE j \in ks : TRUE
         IN {DictSet(m, k, o.val) : m \in MergedMapsFromEmpty(existing, entries, ks \ {k}),
                                    o \in Oks(entries[k])}

(* the maps new_map can end as when every entry in ks merged to one of its *)
(* Ok outcomes; entries[k] is the set of outcomes of entry k               *)
MergedMaps(existing, entries, ks) ==
    IF ks = {} THEN {existing}
    ELSE LET k == CHOOSE j \in ks : TRUE
         IN {DictSet(m, k, o.val) : m \in MergedMaps(existing, entries, ks \ {k}),
                                    o \in Oks(entries[k])}

(* the loop of _update_map: it raises what the first failing entry raises, *)
(* and new.iteritems() may bring any entry first                           *)
MergeEntries(existing, new, tag, update, proto_pair) ==
    LET entries == [k \in Keys(new) |-> MergeEntry(existing, new, tag, update, proto_pair, k)]
    IN UNION {Raised(entries[k]) : k \in Keys(new)} \cup
       {Ok(m) : m \in MergedMaps(existing, entries, Keys(new))}

(* variant: an update value that is not a documented one is an error, as for lists *)
UpdateMapChecksUpdate(existing, new, tag, context) ==
    LET new_type == _find_type(new)
        tag_in_context == Last(tag)
        update == CtxGet(context, tag_in_context \o separator \o "update",
                         default_map_update)
        protos == IF update = PyStr("extend")
                  THEN _get_proto(tag_in_context, context, existing)
                  ELSE {Ok(<<PyNone, EmptyDict>>)}
    IN IF new_type = _UNACCEPTABLE THEN {ValueErrorUnacceptable(new)}
       ELSE IF new_type # _MAP THEN {_report_type_error(tag, existing)}
       ELSE IF update \notin {PyStr("overwrite"), PyStr("modify"), PyStr("extend")}
       THEN {DefaultError("Invalid map update value " \o v) : v \in StrOf(update)}
       ELSE Raised(protos) \cup
            UNION {MergeEntries(existing, new, tag, update, o.val) : o \in Oks(protos)}

_update_map(existing, new, tag, context) ==
    LET new_type == _find_type(new)
        tag_in_context == Last(tag)
        update == CtxGet(context, tag_in_context \o separator \o "update",
                         default_map_update)
        protos == IF update = PyStr("extend")
                  THEN _get_proto(tag_in_context, context, existing)
                  ELSE {Ok(<<PyNone, EmptyDict>>)}
    IN IF new_type = _UNACCEPTABLE THEN {ValueErrorUnacceptable(new)}
       ELSE IF new_type # _MAP THEN {_report_type_error(tag, existing)}
       ELSE Raised(protos) \cup
            UNION {MergeEntries(existing, new, tag, update, o.val) : o \in Oks(protos)}

_update_node(existing, new, tag, context) ==
    LET existing_type == _find_type(existing)
    IN CASE existing_type \in _ATOMS -> _update_atom(existing, new, tag, context)
         [] existing_type = _LIST -> _update_list(existing, new, tag, context)
         [] existing_type = _MAP -> _update_map(existing, new, tag, context)
         [] OTHER -> {ValueErrorUnacceptable(existing)}

---------------------------------------------------------------------------
(* Object identity.  The values above say what a node holds, not which     *)
(* object it is.  A list or dict of the accumulator is either an object    *)
(* made during the call or an object of an input layer; the second kind   *)
(* is tracked as a set of paths, each a sequence of Key and Idx segments   *)
(* from a node down to a list or dict below it (<<>> is the node itself).  *)

Key(k) == <<"key", k>>
Idx(n) == <<"idx", n>>

RECURSIVE MutablePaths(_)
MutablePaths(x) ==
    CASE TypeName(x) = "dict" ->
           {<<>>} \cup UNION {{<<Key(k)>> \o q : q \in MutablePaths(Payload(x)[k])} : k \in Keys(x)}
      [] TypeName(x) = "list" ->
           {<<>>} \cup UNION {{<<Idx(j - 1)>> \o q : q \in MutablePaths(Payload(x)[j])}
                                : j \in 1..Len(Payload(x))}
      [] OTHER -> {}

(* the paths of sh below the segment seg, and paths put below a segment *)
Under(sh, seg) == {Tail(q) : q \in {r \in sh : r # <<>> /\ r[1] = seg}}
Below(seg, qs) == {<<seg>> \o q : q \in qs}

(* the layers' objects inside the virtual context: its values are the      *)
(* context's own values under shorter keys                                 *)
VirtShared(tag, context, csh) ==
    LET virt_prefix == tag \o separator \o proto_tag \o separator
        from == {k \in Keys(context) : StartsWith(k, virt_prefix)}
    IN UNION {Below(Key(SliceFrom(k, Len(tag \o separator))), Under(csh, Key(k))) : k \in from}

(* the layers' objects inside the prototype proto that _get_proto took     *)
(* from the context (the meta-setting given) or from the existing node     *)
ProtoShared(proto, tag, context, existing, esh, csh) ==
    LET proto_meta == tag \o separator \o proto_tag
    IN IF CtxGet(context, proto_meta, PyNone) # PyNone
       THEN Under(csh, Key(proto_meta))
       ELSE CASE TypeName(existing) = "list" ->
                   UNION {Under(esh, Idx(j - 1))
                            : j \in {h \in 1..Len(Payload(existing)) : Payload(existing)[h] = proto}}
              [] TypeName(existing) = "dict" ->
                   UNION {Under(esh, Key(k))
                            : k \in {h \in Keys(existing) : Payload(existing)[h] = proto}}
              [] OTHER -> {}

RECURSIVE SharedIn(_, _, _, _, _, _, _)

(* the layers' objects inside result, an entry that _update_node built     *)
(* from new and a prototype of the node existing                           *)
SharedInAdded(existing, new, result, tag, context, esh, csh) ==
    UNION {SharedIn(o.val[1], new, result, proto_tag, o.val[2],
                    ProtoShared(o.val[1], tag, context, existing, esh, csh),
                    VirtShared(tag, context, csh))
             : o \in {c \in Oks(_get_proto(tag, context, existing)) :
                        Ok(result) \in _update_node(c.val[1], new, <<proto_tag>>, c.val[2])}}

(* the layers' objects inside result, the merge of new into existing:      *)
(* dict(existing) and the lists _update_list builds are new objects whose  *)
(* entries are the objects they were, but for the entries merged again     *)
SharedIn(existing, new, result, tag, context, esh, csh) ==
    CASE TypeName(existing) = "dict" /\ TypeName(new) = "dict" ->
           UNION {IF k \notin Keys(new) THEN Below(Key(k), Under(esh, Key(k)))
                  ELSE IF k \in Keys(existing)
                  THEN Below(Key(k), SharedIn(Payload(existing)[k], Payload(new)[k],
                                              Payload(result)[k], k, existing,
                                              Under(esh, Key(k)), esh))
                  ELSE Below(Key(k), SharedInAdded(existing, Payload(new)[k], Payload(result)[k],
                                                   tag, context, esh, csh))
                    : k \in Keys(result)}
      [] TypeName(existing) = "list" /\ TypeName(new) = "list" ->
           LET update == CtxGet(context, tag \o separator \o "update", default_list_update)
               olds == Len(Payload(existing))
               news == Len(Payload(new))
               kept(at) == UNION {Below(Idx(at + j - 1), Under(esh, Idx(j - 1))) : j \in 1..olds}
               added(at) ==
                   UNION {Below(Idx(at + j - 1),
                                SharedInAdded(existing, Payload(new)[j], Payload(result)[at + j],
                                              tag, context, esh, csh))
                            : j \in 1..news}
           IN CASE update = PyStr("overwrite") -> added(0)
                [] update = PyStr("prepend") -> added(0) \cup kept(news)
                [] update = PyStr("append") -> kept(0) \cup added(olds)
                [] OTHER -> {}
      [] OTHER -> {}

---------------------------------------------------------------------------
(* The layers the model chains.  A run takes one default and up to         *)
(* MaxOverrides overrides from one family: atoms with and without          *)
(* coercion, lists under every update method and prototype source, maps    *)
(* with and without extension.                                             *)

MaxOverrides == 2

(* the value of an entry that a layer leaves out *)
Absent == <<"absent", "absent">>

(* a dict from entries <<key, value>>, leaving out those whose value is Absent *)
Entries(pairs) == DictOf({p \in pairs : p[2] # Absent})

Point == Entries({<<"x", PyInt(1)>>, <<"y", PyInt(2)>>})

AtomDefaults ==
    {Entries({<<"a", a>>, <<"a...coercion", c>>, <<"b", PyInt(7)>>})
       : a \in {PyInt(1), PyFloat(3), PyBool(FALSE), PyStr("x")},
         c \in {Absent, PyBool(TRUE), PyBool(FALSE)}}

AtomOverrides ==
    {Entries({<<"a", x>>, <<"b", b>>})
       : x \in {Absent, PyInt(2), PyFloat(4), PyBool(TRUE), PyStr("2"), PyStr("1.5"),
                PyStr("abc"), PyList(<<PyInt(1)>>), EmptyDict},
         b \in {Absent, PyInt(8)}}
    \cup {Entries({<<"a", PyStr("2")>>, <<"a...coercion", PyBool(TRUE)>>})}

ListDefaults ==
    {Entries({<<"l", e>>, <<"l...update", u>>, <<"l...prototype", p>>,
              <<"l...prototype-key", pk>>})
       : e \in {PyList(<<>>), PyList(<<PyInt(1), PyInt(2)>>), PyList(<<Point>>)},
         u \in {Absent, PyStr("overwrite"), PyStr("prepend"), PyStr("append"),
                PyStr("unique"), PyStr("replace")},
         p \in {Absent, PyInt(1), Point},
         pk \in {Absent, PyInt(0)}}
    \cup
    (* a prototype meta-option that holds None *)
    {Entries({<<"l", e>>, <<"l...prototype", PyNone>>, <<"l...prototype-key", pk>>})
       : e \in {PyList(<<>>), PyList(<<PyInt(1), PyInt(2)>>)},
         pk \in {Absent, PyInt(0)}}
    \cup
    (* a prototype key that indexes nothing in the list *)
    {Entries({<<"l", PyList(<<PyInt(1), PyInt(2)>>)>>, <<"l...prototype-key", pk>>})
       : pk \in {PyInt(5), PyStr("0")}}

ListOverrides ==
    {Entries({<<"l", n>>})
       : n \in {Absent, PyList(<<>>), PyList(<<PyInt(3)>>), PyList(<<PyInt(2), PyInt(3)>>),
                PyList(<<PyFloat(2), PyInt(3)>>),
                PyList(<<Entries({<<"x", PyInt(5)>>})>>),
                PyList(<<Entries({<<"x", PyInt(5)>>}), Entries({<<"y", PyInt(6)>>})>>),
                PyList(<<Entries({<<"x", PyInt(5)>>}), Entries({<<"z", PyInt(6)>>})>>),
                PyInt(3)}}

MapDefaults ==
    {Entries({<<"m", m>>, <<"m...update", u>>, <<"m...prototype", p[1]>>,
              <<"m...prototype...update", p[2]>>})
       : m \in {EmptyDict, Entries({<<"a", PyInt(1)>>, <<"b", PyInt(2)>>}),
                Entries({<<"a", PyInt(1)>>, <<"n", Point>>, <<"n...update", PyStr("extend")>>})},
         u \in {Absent, PyStr("extend"), PyStr("modify")},
         p \in {<<Absent, Absent>>, <<Entries({<<"x", PyInt(1)>>}), Absent>>,
                <<PyList(<<PyInt(1), PyInt(2)>>), Absent>>,
                <<PyList(<<PyInt(1), PyInt(2)>>), PyStr("append")>>}}
    \cup
    (* an extensible map whose prototype is named by a key *)
    {Entries({<<"m", Entries({<<"a", PyInt(1)>>, <<"b", PyInt(2)>>})>>,
              <<"m...update", PyStr("extend")>>, <<"m...prototype-key", pk>>})
       : pk \in {PyStr("a"), PyStr("zz")}}
    \cup
    (* update methods that no branch of _update_map names *)
    {Entries({<<"m", Entries({<<"a", PyInt(1)>>, <<"b", PyInt(2)>>})>>, <<"m...update", u>>})
       : u \in {PyStr("overwrite"), PyStr("append")}}

MapOverrides ==
    {Entries({<<"m", m>>})
       : m \in {Absent, EmptyDict,
                Entries({<<"a", PyInt(9)>>}),
                Entries({<<"c", PyInt(9)>>}),
                Entries({<<"a", PyInt(9)>>, <<"c", PyInt(9)>>}),
                Entries({<<"a", PyStr("9")>>, <<"c", PyInt(9)>>}),
                Entries({<<"k", Entries({<<"x", PyInt(5)>>})>>}),
                Entries({<<"k", PyList(<<PyInt(-1), PyInt(-2)>>)>>,
                         <<"j", PyList(<<PyInt(99)>>)>>}),
                Entries({<<"k", PyList(<<PyStr("s")>>)>>}),
                Entries({<<"a...update", PyStr("extend")>>}),
                Entries({<<"a", PyInt(9)>>, <<"c...x", PyInt(9)>>}),
                Entries({<<"n", Entries({<<"x", PyInt(5)>>})>>}),
                Entries({<<"n", Entries({<<"z", PyInt(5)>>})>>}),
                Entries({<<"n", Entries({<<"x...update", PyInt(5)>>})>>}),
                PyInt(3)}}

(* a list and a map (with a map inside) whose coercion meta-option is on *)
CoercedDefaults ==
    {Entries({<<"l", PyList(<<PyInt(1), PyInt(2)>>)>>, <<"l...coercion", PyBool(TRUE)>>,
              <<"m", Entries({<<"a", PyInt(1)>>, <<"n", Point>>, <<"n...coercion", PyBool(TRUE)>>})>>,
              <<"m...coercion", PyBool(TRUE)>>})}

CoercedOverrides ==
    {Entries({<<"l", l>>, <<"m", m>>})
       : l \in {Absent, PyInt(3), PyStr("x"), EmptyDict, PyList(<<PyInt(5)>>)},
         m \in {Absent, PyInt(3), PyList(<<PyInt(1)>>), Entries({<<"a", PyInt(2)>>}),
                Entries({<<"n", PyInt(3)>>}), Entries({<<"n", Entries({<<"x", PyInt(4)>>})>>})}}

(* trees that hold None, which is of none of the five node types *)
NullDefaults ==
    {Entries({<<"a", a>>, <<"b", PyInt(7)>>}) : a \in {PyNone, PyInt(1), PyBool(TRUE)}}

NullOverrides ==
    {Entries({<<"a", a>>, <<"b", b>>})
       : a \in {Absent, PyNone, PyInt(2), PyBool(FALSE)}, b \in {Absent, PyInt(8)}}

(* meta-options of the root map: keys that start with the separator *)
RootDefaults ==
    {Entries({<<"a", PyInt(1)>>, <<"...update", u>>, <<"...prototype", p>>})
       : u \in {Absent, PyStr("extend"), PyStr("modify")},
         p \in {Absent, PyInt(0), PyList(<<PyInt(1)>>)}}

RootOverrides ==
    {EmptyDict, Entries({<<"a", PyInt(2)>>}), Entries({<<"z", PyInt(5)>>}),
     Entries({<<"z", PyStr("x")>>}), Entries({<<"a", PyInt(2)>>, <<"y", PyInt(6)>>}),
     Entries({<<"z", PyList(<<PyInt(5)>>)>>})}

Families == {<<AtomDefaults, AtomOverrides>>, <<ListDefaults, ListOverrides>>,
             <<MapDefaults, MapOverrides>>, <<CoercedDefaults, CoercedOverrides>>,
             <<NullDefaults, NullOverrides>>, <<RootDefaults, RootOverrides>>}

---------------------------------------------------------------------------
(* chain_options: functools.reduce over reversed(ops[:-1]), starting from  *)
(* ops[-1]; d is the accumulator and i counts the layers folded in so far. *)

NoException == Raise("None", <<>>)

Init ==
    /\ \/ ops = <<>>
       \/ \E fam \in Families : \E default \in fam[1] : \E n \in 0..MaxOverrides :
             \E overrides \in [1..n -> fam[2]] : ops = overrides \o <<default>>
    /\ pc = "call"
    /\ d = PyNone
    /\ i = 0
    /\ exc = NoException
    /\ shared = {}

(* variant: the reduction starts from the first layer given *)
InitializerFirst(layers) == layers[1]

(* ops[-1], the initializer of the reduction *)
Initializer(layers) == layers[Len(layers)]

(* ops[:-1] *)
AllButLast(layers) == SubSeq(layers, 1, Len(layers) - 1)

(* variant: the layers taken in the order given *)
ForwardOrder(q) == q

(* reversed(q) *)
Reversed(q) == [n \in 1..Len(q) |-> q[Len(q) + 1 - n]]

(* variant: the default is folded in too, after starting from it *)
FoldOrderWithDefault(layers) == Reversed(layers)

(* the layers in the order the reduction folds them in *)
FoldOrder(layers) == Reversed(AllButLast(layers))

(* variant: the root is merged in an empty context *)
LambdaWithoutContext(acc, u) == _update_node(acc, u, <<"">>, EmptyDict)

(* one application of the lambda: _update_node(d, u, ('', ), d) *)
Lambda(acc, u) == _update_node(acc, u, <<"">>, acc)

(* functools.reduce from the n-th item of the sequence on, acc being the   *)
(* value accumulated so far                                                *)
RECURSIVE Reduce(_, _, _)
Reduce(acc, layers, n) ==
    IF n > Len(layers) THEN {Ok(acc)}
    ELSE LET outs == Lambda(acc, layers[n])
         IN Raised(outs) \cup UNION {Reduce(o.val, layers, n + 1) : o \in Oks(outs)}

(* the outcomes of a call chain_options(layers[1], ..., layers[n]), as the *)
(* actions below produce them step by step                                 *)
chain_options(layers) ==
    IF Len(layers) = 0 THEN {Raise("IndexError", <<"tuple index out of range">>)}
    ELSE Reduce(Initializer(layers), FoldOrder(layers), 1)

(* variant: the entries are set in the existing map itself, which on the  *)
(* first fold is the default layer's own root                              *)
LayersMergedInPlace(layers, sh, result) ==
    IF <<>> \in sh THEN [layers EXCEPT ![Len(layers)] = result] ELSE layers

(* the layers after a merge that gave result: new_map = dict(existing), so *)
(* the entries the loop sets are set in a copy and every layer is as it    *)
(* was                                                                     *)
LayersAfterMerge(layers, sh, result) == layers

Call ==
    /\ pc = "call"
    /\ IF Len(ops) = 0
       THEN /\ pc' = "raised"
            /\ exc' = Raise("IndexError", <<"tuple index out of range">>)
            /\ UNCHANGED <<d, shared>>
       ELSE /\ pc' = "reduce"
            /\ d' = Initializer(ops)
            /\ shared' = MutablePaths(Initializer(ops))
            /\ UNCHANGED exc
    /\ i' = 0
    /\ UNCHANGED ops

Fold ==
    /\ pc = "reduce"
    /\ i < Len(FoldOrder(ops))
    /\ \E o \in Lambda(d, FoldOrder(ops)[i + 1]) :
          IF o.ok
          THEN /\ d' = o.val
               /\ shared' = SharedIn(d, FoldOrder(ops)[i + 1], o.val, "", d, shared, shared)
               /\ ops' = LayersAfterMerge(ops, shared, o.val)
               /\ i' = i + 1
               /\ UNCHANGED <<pc, exc>>
          ELSE /\ pc' = "raised"
               /\ exc' = o
               /\ UNCHANGED <<ops, d, i, shared>>

Return ==
    /\ pc = "reduce"
    /\ i = Len(FoldOrder(ops))
    /\ pc' = "returned"
    /\ UNCHANGED <<ops, d, i, exc, shared>>

Next == Call \/ Fold \/ Return

Spec == Init /\ [][Next]_vars

---------------------------------------------------------------------------
(* Vocabulary of the properties *)

Kind(x) ==
    CASE TypeName(x) \in {"int", "float"} -> "Number"
      [] TypeName(x) = "bool" -> "Boolean"
      [] TypeName(x) = "str" -> "String"
      [] TypeName(x) = "list" -> "List"
      [] TypeName(x) = "dict" -> "Map"
      [] OTHER -> "None"

IsAtom(x) == Kind(x) \in {"Number", "Boolean", "String"}

HasSeparator(k) == \E j \in 1..(Len(k) - 2) : SubSeq(k, j, j + 2) = "..."

Item(m, k) == Payload(m)[k]

(* the article for a kind in a type-mismatch message *)
Expected(x) ==
    CASE Kind(x) = "Number" -> "number"
      [] Kind(x) = "Boolean" -> "boolean"
      [] Kind(x) = "String" -> "string"
      [] Kind(x) = "List" -> "list"
      [] Kind(x) = "Map" -> "map"

TypeMismatch(path, existing) ==
    UpdateError(path, "a value of type " \o Expected(existing) \o " is expected")

(* a step of the reduction is due, and Layer is the layer it folds in: the *)
(* overrides are taken from the one next to the default up to the first    *)
Folding == pc = "reduce" /\ i < Len(ops) - 1
Layer == ops[Len(ops) - 1 - i]
Folded == Folding /\ pc' = "reduce" /\ i' = i + 1
Failed == Folding /\ pc' = "raised"

Default == ops[Len(ops)]
High == ops[1]

---------------------------------------------------------------------------
(* C1  Atom overwrite: wherever a layer gives an atom b for an existing    *)
(* atom a of the same kind (at the root or inside nested maps), the merge  *)
(* returns exactly b at that place, whatever coercion or other             *)
(* meta-options the enclosing map holds; a layer that gives nothing but    *)
(* such atoms always merges.                                               *)

RECURSIVE AtomsOverwritten(_, _, _)
AtomsOverwritten(e, n, r) ==
    \A k \in Keys(n) \cap Keys(e) :
       /\ (IsAtom(Item(e, k)) /\ Kind(Item(n, k)) = Kind(Item(e, k)))
             => k \in Keys(r) /\ Item(r, k) = Item(n, k)
       /\ (Kind(Item(e, k)) = "Map" /\ Kind(Item(n, k)) = "Map")
             => /\ k \in Keys(r)
                /\ Kind(Item(r, k)) = "Map"
                /\ AtomsOverwritten(Item(e, k), Item(n, k), Item(r, k))

OnlyMatchingAtoms(e, n) ==
    \A k \in Keys(n) :
       /\ k \in Keys(e)
       /\ ~HasSeparator(k)
       /\ IsAtom(Item(e, k))
       /\ Kind(Item(n, k)) = Kind(Item(e, k))

AtomOverwrite ==
    [][/\ Folded => AtomsOverwritten(d, Layer, d')
       /\ (Folding /\ OnlyMatchingAtoms(d, Layer)) => Folded]_vars

AtomOverwriteWitness ==
    /\ pc = "returned"
    /\ Len(ops) = 2
    /\ "a...coercion" \in Keys(Default)
    /\ "a" \in Keys(High)
    /\ Kind(Item(High, "a")) = Kind(Item(Default, "a"))
    /\ Item(High, "a") # Item(Default, "a")
    /\ Item(d, "a") = Item(High, "a")

---------------------------------------------------------------------------
(* C2  Coercion gate: when a layer gives, for an existing atom, a value of *)
(* another kind, the merge fails with the type-mismatch UpdateError naming *)
(* the expected kind and the path unless coercion resolves true and the    *)
(* conversion succeeds; no other failure ever comes out of it.             *)

Coercion(m, k) ==
    IF (k \o "...coercion") \in Keys(m) THEN BoolOf(Item(m, k \o "...coercion")) ELSE FALSE

(* the layer gives the one entry k, of another kind than the atom at k *)
MismatchAt(k) ==
    /\ Keys(Layer) = {k}
    /\ k \in Keys(d)
    /\ IsAtom(Item(d, k))
    /\ Kind(Item(Layer, k)) # Kind(Item(d, k))

CoercionGate ==
    [][\A k \in {"a"} :
          (Folding /\ MismatchAt(k)) =>
             /\ Failed => exc' = TypeMismatch(<<"", k>>, Item(d, k))
             /\ ~Coercion(d, k) => Failed
             /\ Folded => TypeName(Item(d', k)) = TypeName(Item(d, k))]_vars

---------------------------------------------------------------------------
(* C3  List update strategies: for an existing list E and an override list *)
(* whose elements merge against the prototype to N, the result is N when   *)
(* the update meta-option is absent or 'overwrite', N followed by E when   *)
(* it is 'prepend' and E followed by N when it is 'append'.                *)

Meta(m, k, tag) == IF (k \o "..." \o tag) \in Keys(m) THEN Item(m, k \o "..." \o tag) ELSE Absent

(* a prototype overlaid by what an override gives: the override itself,    *)
(* but for a map of atoms the prototype's entries with the override's over *)
(* them                                                                    *)
Overlaid(proto, x) ==
    IF Kind(proto) = "Map" /\ Kind(x) = "Map"
    THEN PyDict([k \in Keys(proto) |-> IF k \in Keys(x) THEN Item(x, k) ELSE Item(proto, k)])
    ELSE x

(* the prototype of the elements of the list at k: given, or an element of *)
(* the existing list                                                       *)
ElementProto(m, k) ==
    IF Meta(m, k, "prototype") \notin {Absent, PyNone} THEN Meta(m, k, "prototype")
    ELSE IF Meta(m, k, "prototype-key") # Absent
    THEN Payload(Item(m, k))[Payload(Meta(m, k, "prototype-key")) + 1]
    ELSE Payload(Item(m, k))[1]

ListGiven(k) == k \in Keys(Layer) /\ k \in Keys(d) /\ Kind(Item(d, k)) = "List"

ExistingList(k) == Payload(Item(d, k))
NewList(k) ==
    [j \in 1..Len(Payload(Item(Layer, k))) |->
        Overlaid(ElementProto(d, k), Payload(Item(Layer, k))[j])]

ListStrategies ==
    [][(Folded /\ ListGiven("l")) =>
          LET update == Meta(d, "l", "update")
              result == Payload(Item(d', "l"))
          IN /\ update \in {Absent, PyStr("overwrite")} => result = NewList("l")
             /\ update = PyStr("prepend") => result = NewList("l") \o ExistingList("l")
             /\ update = PyStr("append") => result = ExistingList("l") \o NewList("l")]_vars

ListStrategiesWitness ==
    /\ pc = "returned"
    /\ Len(ops) = 2
    /\ Meta(Default, "l", "update") = PyStr("prepend")
    /\ "l" \in Keys(High)
    /\ Item(Default, "l") = PyList(<<PyInt(1), PyInt(2)>>)
    /\ Item(High, "l") = PyList(<<PyInt(2), PyInt(3)>>)
    /\ Item(d, "l") = PyList(<<PyInt(2), PyInt(3), PyInt(1), PyInt(2)>>)

---------------------------------------------------------------------------
(* C4  List unique: with update 'unique' and lists of atoms the result     *)
(* holds every value of the existing list and of the merged override list, *)
(* nothing else, and each value once (values compared as Python compares   *)
(* them: 1, 1.0 and True are one value).                                   *)

Twice(x) ==
    CASE TypeName(x) = "int" -> 2 * Payload(x)
      [] TypeName(x) = "float" -> Payload(x)
      [] TypeName(x) = "bool" -> IF Payload(x) THEN 2 ELSE 0

SameValue(x, y) ==
    IF Kind(x) \in {"Number", "Boolean"} /\ Kind(y) \in {"Number", "Boolean"}
    THEN Twice(x) = Twice(y)
    ELSE x = y

ListUnique ==
    [][(Folded /\ ListGiven("l") /\ Meta(d, "l", "update") = PyStr("unique")) =>
          LET all == ExistingList("l") \o NewList("l")
              result == Payload(Item(d', "l"))
          IN /\ \A j \in 1..Len(all) : \E h \in 1..Len(result) : SameValue(all[j], result[h])
             /\ \A h \in 1..Len(result) : \E j \in 1..Len(all) : result[h] = all[j]
             /\ \A h, g \in 1..Len(result) : SameValue(result[h], result[g]) => h = g]_vars

ListUniqueWitness ==
    /\ pc = "returned"
    /\ Len(ops) = 2
    /\ "l" \in Keys(Default)
    /\ Meta(Default, "l", "update") = PyStr("unique")
    /\ "l" \in Keys(High)
    /\ Item(Default, "l") = PyList(<<PyInt(1), PyInt(2)>>)
    /\ Item(High, "l") = PyList(<<PyInt(2), PyInt(3)>>)
    /\ Len(Payload(Item(d, "l"))) = 3
    /\ {Payload(Item(d, "l"))[j] : j \in 1..3} = {PyInt(1), PyInt(2), PyInt(3)}

---------------------------------------------------------------------------
(* C5  Map modify-only.  As claimed: with no update meta-option, an        *)
(* override that names only keys of the existing map yields the map with   *)
(* those keys merged and the others retained, and an override naming a key *)
(* k absent from the existing map fails with UpdateError 'invalid option'  *)
(* at the map's path followed by k.                                        *)

MapGiven(k) ==
    /\ k \in Keys(Layer) /\ k \in Keys(d)
    /\ Kind(Item(d, k)) = "Map" /\ Kind(Item(Layer, k)) = "Map"

InvalidOption(path) == UpdateError(path, "invalid option")

Retained(e, n, r) ==
    /\ Keys(r) = Keys(e)
    /\ \A k \in Keys(e) \ Keys(n) : Item(r, k) = Item(e, k)
    /\ AtomsOverwritten(e, n, r)

MapModifyOnlyAsClaimed ==
    [][(Folding /\ MapGiven("m") /\ Meta(d, "m", "update") = Absent) =>
          LET e == Item(d, "m")
              n == Item(Layer, "m")
          IN /\ Keys(n) \subseteq Keys(e) =>
                   Folded /\ Retained(e, n, Item(d', "m"))
             /\ \A k \in Keys(n) \ Keys(e) :
                   Failed /\ exc' = InvalidOption(<<"", "m", k>>)]_vars

(* C5 as amended: with no update meta-option, an override that names only  *)
(* keys of the existing map and merges yields the map with those keys      *)
(* merged and the others retained; an override naming a key absent from    *)
(* the existing map always fails, and when the absent key k holds no       *)
(* separator and every other entry of the override merges without error,   *)
(* it fails with UpdateError 'invalid option' at the map's path followed   *)
(* by k.  (The outcome of the whole step is that of the map's merge when   *)
(* the layer gives nothing but the map.)                                   *)

(* the entry j of the override n merges into the map e at path without error *)
MergesCleanly(e, n, path, j) ==
    /\ j \in Keys(e)
    /\ ~HasSeparator(j)
    /\ Raised(_update_node(Item(e, j), Item(n, j), path \o <<j>>, e)) = {}

MapModifyOnly ==
    [][(Folding /\ MapGiven("m") /\ Meta(d, "m", "update") = Absent) =>
          LET e == Item(d, "m")
              n == Item(Layer, "m")
          IN /\ (Keys(n) \subseteq Keys(e) /\ Folded) => Retained(e, n, Item(d', "m"))
             /\ (Keys(Layer) = {"m"} /\ \A j \in Keys(n) : MergesCleanly(e, n, <<"", "m">>, j))
                   => Folded
             /\ Keys(n) \ Keys(e) # {} => Failed
             /\ \A k \in Keys(n) \ Keys(e) :
                   (/\ Keys(Layer) = {"m"}
                    /\ ~HasSeparator(k)
                    /\ \A j \in Keys(n) \ {k} : MergesCleanly(e, n, <<"", "m">>, j))
                      => exc' = InvalidOption(<<"", "m", k>>)]_vars

MapModifyOnlyWitness ==
    /\ pc = "raised"
    /\ Len(ops) = 2
    /\ "m" \in Keys(Default)
    /\ Meta(Default, "m", "update") = Absent
    /\ Item(Default, "m") = Entries({<<"a", PyInt(1)>>, <<"b", PyInt(2)>>})
    /\ "m" \in Keys(High)
    /\ Item(High, "m") = Entries({<<"a", PyInt(9)>>, <<"c", PyInt(9)>>})
    /\ exc = InvalidOption(<<"", "m", "c">>)

---------------------------------------------------------------------------
(* C6  Map extend with prototype: with update 'extend', a key of the       *)
(* override that the existing map lacks is never rejected as an unknown    *)
(* option; in the result it holds the override's value merged into the     *)
(* resolved prototype, and the result has the existing user entries plus   *)
(* one per new key.                                                        *)

UserKeys(m) == {k \in Keys(m) : ~HasSeparator(k)}

(* the prototypes the new entries of the map at k can be merged into: the  *)
(* one given, or else a value of the existing map                          *)
EntryProtos(m, k) ==
    IF Meta(m, k, "prototype") # Absent THEN {Meta(m, k, "prototype")}
    ELSE {Item(Item(m, k), j) : j \in Keys(Item(m, k))}

(* the override's value x merged into the prototype: a map prototype       *)
(* overlaid, a list prototype combined as the prototype's own update       *)
(* meta-option says, an atom replaced                                      *)
MergedIntoProto(proto, x, update) ==
    IF Kind(proto) = "List" /\ Kind(x) = "List"
    THEN CASE update = PyStr("append") -> PyList(Payload(proto) \o Payload(x))
           [] update = PyStr("prepend") -> PyList(Payload(x) \o Payload(proto))
           [] OTHER -> x
    ELSE Overlaid(proto, x)

MapExtend ==
    [][(Folding /\ MapGiven("m") /\ Meta(d, "m", "update") = PyStr("extend")) =>
          LET e == Item(d, "m")
              n == Item(Layer, "m")
              fresh == Keys(n) \ Keys(e)
          IN /\ Folded =>
                  /\ \A k \in fresh :
                        \E p \in EntryProtos(d, "m") :
                           /\ Kind(p) = Kind(Item(n, k))
                           /\ Item(Item(d', "m"), k) =
                                 MergedIntoProto(p, Item(n, k), Meta(d, "m", "prototype...update"))
                  /\ Cardinality(UserKeys(Item(d', "m"))) =
                        Cardinality(UserKeys(e)) + Cardinality(fresh)
             /\ Failed => \A k \in fresh : exc' # InvalidOption(<<"", "m", k>>)]_vars

MapExtendWitness ==
    /\ pc = "returned"
    /\ Len(ops) = 2
    /\ "m" \in Keys(Default)
    /\ Item(Default, "m") = EmptyDict
    /\ Meta(Default, "m", "update") = PyStr("extend")
    /\ Meta(Default, "m", "prototype") = Entries({<<"x", PyInt(1)>>})
    /\ "m" \in Keys(High)
    /\ Item(High, "m") = Entries({<<"k", Entries({<<"x", PyInt(5)>>})>>})
    /\ Item(d, "m") = Entries({<<"k", Entries({<<"x", PyInt(5)>>})>>})

---------------------------------------------------------------------------
(* C7  Single-layer chain: chain_options called with the default alone     *)
(* returns, and returns a tree equal to that default.                      *)

SingleLayer ==
    Len(ops) = 1 => /\ pc # "raised"
                    /\ pc = "returned" => d = Default

SingleLayerWitness ==
    /\ pc = "returned"
    /\ Len(ops) = 1
    /\ Meta(Default, "m", "update") = PyStr("extend")
    /\ d = Default

---------------------------------------------------------------------------
(* C8  Priority ordering: in chain_options(high, low, default) the low     *)
(* layer is folded in first and the high layer last; an atom that high     *)
(* sets holds high's value in the result even when low sets it too, and a  *)
(* list of atoms that high sets is the result's list under 'overwrite' and *)
(* its tail under 'append'.                                                *)

Low == ops[2]

(* the accumulator acc holds, for the atoms the layer sets, the layer's values *)
HoldsAtomsOf(acc, layer) ==
    \A k \in Keys(layer) :
       (k \in Keys(Default) /\ IsAtom(Item(Default, k))
           /\ Kind(Item(layer, k)) = Kind(Item(Default, k)))
          => Item(acc, k) = Item(layer, k)

AtomList(x) == Kind(x) = "List" /\ \A j \in 1..Len(Payload(x)) : IsAtom(Payload(x)[j])

IsSuffix(q, r) == Len(q) <= Len(r) /\ SubSeq(r, Len(r) - Len(q) + 1, Len(r)) = q

PriorityOrdering ==
    Len(ops) = 3 =>
       /\ (pc = "reduce" /\ i = 1) => HoldsAtomsOf(d, Low)
       /\ pc = "returned" =>
             /\ HoldsAtomsOf(d, High)
             /\ ("l" \in Keys(High) /\ AtomList(Item(High, "l"))) =>
                   /\ Meta(Default, "l", "update") \in {Absent, PyStr("overwrite")}
                         => Item(d, "l") = Item(High, "l")
                   /\ Meta(Default, "l", "update") = PyStr("append")
                         => IsSuffix(Payload(Item(High, "l")), Payload(Item(d, "l")))

PriorityOrderingWitness ==
    /\ pc = "returned"
    /\ Len(ops) = 3
    /\ "a" \in Keys(High) /\ "a" \in Keys(Low)
    /\ Kind(Item(High, "a")) = Kind(Item(Default, "a"))
    /\ Kind(Item(Low, "a")) = Kind(Item(Default, "a"))
    /\ Item(High, "a") # Item(Low, "a")
    /\ Item(d, "a") = Item(High, "a")

---------------------------------------------------------------------------
(* C9  Separator rejection: a merge never succeeds when the override map,  *)
(* at the root or at a nested position where it is merged into an existing *)
(* map, has a key that contains the separator.                             *)

RECURSIVE Tainted(_, _)
Tainted(e, n) ==
    /\ Kind(e) = "Map"
    /\ Kind(n) = "Map"
    /\ \/ \E k \in Keys(n) : HasSeparator(k)
       \/ \E k \in Keys(n) \cap Keys(e) : Tainted(Item(e, k), Item(n, k))

SeparatorRejection ==
    [][(Folding /\ Tainted(d, Layer)) => Failed]_vars

Taint(path) == UpdateError(path, "users are not supposed to taint meta-options")

SeparatorRejectionWitness ==
    /\ pc = "raised"
    /\ Len(ops) = 2
    /\ Meta(Default, "m", "update") = PyStr("extend")
    /\ "m" \in Keys(High)
    /\ Item(High, "m") = Entries({<<"n", Entries({<<"x...update", PyInt(5)>>})>>})
    /\ "n" \in Keys(Item(Default, "m"))
    /\ exc = Taint(<<"", "m", "n">>)

---------------------------------------------------------------------------
(* C10  As claimed: no map anywhere in the tree a successful chain_options *)
(* returns has a key containing the separator.                             *)

RECURSIVE SeparatorKeys(_)
SeparatorKeys(x) ==
    CASE Kind(x) = "Map" ->
           {k \in Keys(x) : HasSeparator(k)} \cup UNION {SeparatorKeys(Item(x, k)) : k \in Keys(x)}
      [] Kind(x) = "List" -> UNION {SeparatorKeys(Payload(x)[j]) : j \in 1..Len(Payload(x))}
      [] OTHER -> {}

NoMetaKeysInResult == pc = "returned" => SeparatorKeys(d) = {}

(* C10 as amended: the tree a successful chain_options returns keeps the   *)
(* meta-option keys of the default (the root map's are all still there)    *)
(* and gains none from an override: every key containing the separator, in *)
(* any map of the result, is a key of some map of the default tree.        *)

MetaKeysFromDefault ==
    pc = "returned" =>
       /\ SeparatorKeys(d) \subseteq SeparatorKeys(Default)
       /\ {k \in Keys(d) : HasSeparator(k)} = {k \in Keys(Default) : HasSeparator(k)}

MetaKeysFromDefaultWitness ==
    /\ pc = "returned"
    /\ Len(ops) = 3
    /\ d # Default
    /\ "m...prototype...update" \in Keys(d)
    /\ "n...update" \in SeparatorKeys(d)


---------------------------------------------------------------------------
(* C11  No aliasing: the tree chain_options returns shares no list or map  *)
(* object with an input layer, at the root or at any depth, for a chain of *)
(* one layer and for the positions no override touched.                    *)

NoAliasing == pc = "returned" => shared = {}

---------------------------------------------------------------------------
(* C12  Layers are read-only: no step of chain_options, whether the call   *)
(* goes on to return or to raise, changes an input layer at any depth.     *)

---------------------------------------------------------------------------
(* C13  Foldability: once chain_options(low, default) has succeeded with a *)
(* tree r, chain_options(high, low, default) goes on exactly as            *)
(* chain_options(high, r) does, to the same tree or the same error.        *)

Foldability ==
    Len(ops) = 3 =>
       LET lows == Oks(chain_options(<<Low, Default>>))
       IN /\ (pc = "reduce" /\ i = 1) =>
                /\ Ok(d) \in lows
                /\ Reduce(d, FoldOrder(ops), 2) = chain_options(<<High, d>>)
          /\ pc = "returned" => \E r \in lows : Ok(d) \in chain_options(<<High, r.val>>)
          /\ (pc = "raised" /\ i = 1) => \E r \in lows : exc \in chain_options(<<High, r.val>>)

FoldabilityWitness ==
    /\ pc = "returned"
    /\ Len(ops) = 3
    /\ "m" \in Keys(High) /\ "m" \in Keys(Low) /\ "m" \in Keys(Default)
    /\ High # Low
    /\ Ok(d) \notin chain_options(<<High, Default>>)
    /\ Ok(d) \notin chain_options(<<Low, Default>>)

---------------------------------------------------------------------------
(* C14  Chaining zero layers: chain_options called with no layer fails     *)
(* with a DefaultError.                                                    *)

ZeroLayersDefaultError ==
    (Len(ops) = 0 /\ pc # "call") => (pc = "raised" /\ exc.exc = "DefaultError")


---------------------------------------------------------------------------
(* C15  User-input error classification.  As claimed: a type mismatch, an  *)
(* unknown key, an invalid update value on a list, a 'unique' list merge   *)
(* over elements that are not atoms, and a prototype-key that cannot index *)
(* the existing node are each reported as an UpdateError that carries the  *)
(* path from the root and a cause.                                         *)

(* the layer gives the one entry k *)
Only(k) == Keys(Layer) = {k} /\ k \in Keys(d)

(* the prototype of the list at k resolves and every element the layer     *)
(* gives merges into it without error                                      *)
ElementsMerge(k) ==
    LET protos == _get_proto(k, d, Item(d, k))
    IN /\ Raised(protos) = {}
       /\ \A o \in protos :
             Raised(MergeElems(o.val[1], o.val[2], Item(Layer, k), <<"", k>>, 1)) = {}

CauseTypeMismatch(k) ==
    Only(k) /\ Kind(Item(d, k)) \in {"List", "Map"} /\ Kind(Item(Layer, k)) # Kind(Item(d, k))

CauseUnknownKey(k, j) ==
    /\ Only(k) /\ Kind(Item(d, k)) = "Map" /\ Kind(Item(Layer, k)) = "Map"
    /\ Meta(d, k, "update") # PyStr("extend")
    /\ Keys(Item(Layer, k)) = {j} /\ j \notin Keys(Item(d, k)) /\ ~HasSeparator(j)

CauseInvalidUpdate(k) ==
    /\ Only(k) /\ Kind(Item(d, k)) = "List" /\ Kind(Item(Layer, k)) = "List"
    /\ Meta(d, k, "update") \notin {Absent, PyStr("overwrite"), PyStr("prepend"),
                                    PyStr("append"), PyStr("unique")}
    /\ ElementsMerge(k)

CauseUniqueOverNonAtoms(k) ==
    /\ Only(k) /\ Kind(Item(d, k)) = "List" /\ Kind(Item(Layer, k)) = "List"
    /\ Meta(d, k, "update") = PyStr("unique")
    /\ ElementsMerge(k)
    /\ \E x \in {Payload(Item(d, k))[j] : j \in 1..Len(Payload(Item(d, k)))}
              \cup {Payload(Item(Layer, k))[j] : j \in 1..Len(Payload(Item(Layer, k)))} :
          ~IsAtom(x)

CauseProtoKeyOutOfList(k) ==
    /\ Only(k) /\ Kind(Item(d, k)) = "List" /\ Kind(Item(Layer, k)) = "List"
    /\ Meta(d, k, "prototype") \in {Absent, PyNone}
    /\ Meta(d, k, "prototype-key") = PyInt(0)
    /\ Len(Payload(Item(d, k))) = 0

(* an UpdateError whose first argument is a path from the root *)
IsUserError(e) ==
    /\ e.exc = "UpdateError" /\ Len(e.args) = 2
    /\ Len(e.args[1]) >= 1 /\ e.args[1][1] = ""

(* a DefaultError: a message and nothing else *)
IsDefaultError(e) == e.exc = "DefaultError" /\ Len(e.args) = 1

---------------------------------------------------------------------------
(* C16  Error path construction: the first argument of every UpdateError   *)
(* is a tuple that starts with the root segment '' and then lists the keys *)
(* and list indices leading to the offending node of the override, with    *)
(* the prototype marker after each list index and after each key the       *)
(* existing map lacks and takes by extension.  A wrong-typed top-level     *)
(* atom gives ('', key); an unknown key in the second element of a list    *)
(* gives ('', listkey, 1, 'prototype', badkey); a wrong-typed first        *)
(* element of a list added under a new key of an extend map gives          *)
(* ('', mapkey, newkey, 'prototype', 0, 'prototype').                      *)

Marker == "prototype"

Prefixed(head, paths) == {head \o q : q \in paths}

(* the (value, context) pairs a new entry of the node e can be merged into *)
Protos(e, tag, context) == {o.val : o \in Oks(_get_proto(tag, context, e))}

(* the paths from the node n of the override, merged into e, down to the   *)
(* nodes of n: a key of a map, a key the map lacks and the marker, an      *)
(* index of a list and the marker                                          *)
RECURSIVE OverridePaths(_, _, _, _)
OverridePaths(e, n, tag, context) ==
    {<<>>} \cup
    CASE Kind(e) = "Map" /\ Kind(n) = "Map" ->
           UNION {IF k \in Keys(e)
                  THEN Prefixed(<<k>>, OverridePaths(Item(e, k), Item(n, k), k, e))
                  ELSE {<<k>>} \cup
                       UNION {Prefixed(<<k, Marker>>, OverridePaths(p[1], Item(n, k), Marker, p[2]))
                                : p \in Protos(e, tag, context)}
                    : k \in Keys(n)}
      [] Kind(e) = "List" /\ Kind(n) = "List" ->
           UNION {UNION {Prefixed(<<j - 1, Marker>>,
                                  OverridePaths(p[1], Payload(n)[j], Marker, p[2]))
                           : p \in Protos(e, tag, context)}
                    : j \in 1..Len(Payload(n))}
      [] OTHER -> {}

ErrorPaths ==
    [][Failed =>
          /\ exc'.exc = "UpdateError" =>
                /\ Len(exc'.args) = 2
                /\ exc'.args[1] \in Prefixed(<<"">>, OverridePaths(d, Layer, "", d))
          /\ (Only("a") /\ IsAtom(Item(d, "a")) /\ Kind(Item(Layer, "a")) # Kind(Item(d, "a"))
                /\ _find_type(Item(Layer, "a")) # _UNACCEPTABLE /\ ~Coercion(d, "a"))
                => exc'.args[1] = <<"", "a">>
          /\ (Only("l") /\ Item(d, "l") = PyList(<<Point>>)
                /\ Meta(d, "l", "prototype") \in {Absent, PyNone}
                /\ Item(Layer, "l") = PyList(<<Entries({<<"x", PyInt(5)>>}), Entries({<<"z", PyInt(6)>>})>>))
                => exc' = InvalidOption(<<"", "l", 1, Marker, "z">>)
          /\ (Only("m") /\ Meta(d, "m", "update") = PyStr("extend")
                /\ Meta(d, "m", "prototype") = PyList(<<PyInt(1), PyInt(2)>>)
                /\ "k" \notin Keys(Item(d, "m"))
                /\ Item(Layer, "m") = Entries({<<"k", PyList(<<PyStr("s")>>)>>}))
                => exc' = TypeMismatch(<<"", "m", "k", Marker, 0, Marker>>, PyInt(1))]_vars

ErrorPathsWitness ==
    /\ pc = "raised"
    /\ Len(ops) = 2
    /\ "m" \in Keys(Default) /\ Keys(High) = {"m"}
    /\ Meta(Default, "m", "update") = PyStr("extend")
    /\ Item(High, "m") = Entries({<<"k", PyList(<<PyStr("s")>>)>>})
    /\ exc = TypeMismatch(<<"", "m", "k", Marker, 0, Marker>>, PyInt(1))


---------------------------------------------------------------------------
(* C17  Kind preservation: after any number of layers folded in, every key *)
(* of the default tree, at every depth of nested maps, is still in the     *)
(* accumulated tree and holds a value of the kind it has in the default;   *)
(* a layer that gives a value of another kind where the tree holds a list  *)
(* or a map is rejected with the type-mismatch UpdateError, whatever the   *)
(* coercion meta-option says.                                              *)

RECURSIVE KindsKept(_, _)
KindsKept(default, tree) ==
    /\ Kind(tree) = Kind(default)
    /\ Kind(default) = "Map" =>
          \A k \in Keys(default) : k \in Keys(tree) /\ KindsKept(Item(default, k), Item(tree, k))

(* the layer gives, at k or at k then j, another kind than the list or map there *)
OtherKindAt(k) ==
    /\ k \in Keys(Layer) /\ k \in Keys(d)
    /\ Kind(Item(d, k)) \in {"List", "Map"}
    /\ Kind(Item(Layer, k)) # Kind(Item(d, k))

OtherKindBelow(k, j) ==
    /\ k \in Keys(Layer) /\ k \in Keys(d)
    /\ Kind(Item(d, k)) = "Map" /\ Kind(Item(Layer, k)) = "Map"
    /\ j \in Keys(Item(Layer, k)) /\ j \in Keys(Item(d, k))
    /\ Kind(Item(Item(d, k), j)) \in {"List", "Map"}
    /\ Kind(Item(Item(Layer, k), j)) # Kind(Item(Item(d, k), j))

KindPreservation ==
    [][/\ pc' \in {"reduce", "returned"} => KindsKept(ops[Len(ops)], d')
       /\ Folding =>
             \A k \in {"l", "m"} :
                /\ OtherKindAt(k) => Failed
                /\ (OtherKindAt(k) /\ Keys(Layer) = {k}) =>
                      exc' = TypeMismatch(<<"", k>>, Item(d, k))
                /\ \A j \in {"n"} :
                      /\ OtherKindBelow(k, j) => Failed
                      /\ (OtherKindBelow(k, j) /\ Keys(Layer) = {k} /\ Keys(Item(Layer, k)) = {j}) =>
                            exc' = TypeMismatch(<<"", k, j>>, Item(Item(d, k), j))]_vars

KindPreservationWitness ==
    /\ pc = "raised"
    /\ Len(ops) = 3
    /\ i = 1
    /\ "m...coercion" \in Keys(Default)
    /\ Item(d, "m") # Item(Default, "m")
    /\ KindsKept(Default, d)
    /\ Keys(High) = {"m"}
    /\ Item(High, "m") = Entries({<<"n", PyInt(3)>>})
    /\ exc = TypeMismatch(<<"", "m", "n">>, Point)

---------------------------------------------------------------------------
(* C18  Separator error names the offending key: when a key k of an        *)
(* override map contains the separator, the error raised has k in its path *)
(* or in its message.                                                      *)

NamesKey(e, path, k) ==
    /\ Len(e.args) = 2
    /\ \/ e.args[1] = path \o <<k>>
       \/ Find(e.args[2], k) # -1

SeparatorErrorNamesKey ==
    [][(Folding /\ Only("m") /\ MapGiven("m")) =>
          \A k \in Keys(Item(Layer, "m")) :
             (HasSeparator(k) /\ Keys(Item(Layer, "m")) = {k}) =>
                (Failed /\ NamesKey(exc', <<"", "m">>, k))]_vars

---------------------------------------------------------------------------
(* C19  List elements are merged against the prototype, never by position: *)
(* each element of the newly merged list is the override's element merged  *)
(* into the resolved prototype, whatever the existing list holds at that   *)
(* position; with a prototype given by meta-option the newly merged list   *)
(* is the one an empty existing list gives; and a field that a map-shaped  *)
(* element of the override omits takes the prototype's value.              *)

(* the part of the merged list at k that the layer's elements became *)
NewPart(k) ==
    LET result == Payload(Item(d', k))
        news == Len(Payload(Item(Layer, k)))
    IN IF Meta(d, k, "update") = PyStr("append")
       THEN SubSeq(result, Len(result) - news + 1, Len(result))
       ELSE SubSeq(result, 1, news)

ElementsAgainstPrototype ==
    [][(Folded /\ ListGiven("l")
          /\ Meta(d, "l", "update") \in {Absent, PyStr("overwrite"), PyStr("prepend"), PyStr("append")}) =>
          LET given == Payload(Item(Layer, "l"))
              merged == NewPart("l")
          IN /\ Len(merged) = Len(given)
             /\ \E p \in Protos(Item(d, "l"), "l", d) :
                   \A j \in 1..Len(given) :
                      /\ merged[j] = Overlaid(p[1], given[j])
                      /\ (Kind(given[j]) = "Map" /\ Kind(p[1]) = "Map") =>
                            \A f \in Keys(p[1]) \ Keys(given[j]) :
                               Item(merged[j], f) = Item(p[1], f)
             /\ Meta(d, "l", "prototype") \notin {Absent, PyNone} =>
                   \E o \in Oks(_update_list(PyList(<<>>), Item(Layer, "l"), <<"", "l">>, d)) :
                      Payload(o.val) = merged]_vars

ElementsAgainstPrototypeWitness ==
    /\ pc = "returned"
    /\ Len(ops) = 2
    /\ "l" \in Keys(Default) /\ "l" \in Keys(High)
    /\ Item(Default, "l") = PyList(<<PyInt(1), PyInt(2)>>)
    /\ Meta(Default, "l", "prototype") = Point
    /\ Meta(Default, "l", "update") = PyStr("append")
    /\ Item(High, "l") = PyList(<<Entries({<<"x", PyInt(5)>>}), Entries({<<"y", PyInt(6)>>})>>)
    /\ Item(d, "l") = PyList(<<PyInt(1), PyInt(2),
                               Entries({<<"x", PyInt(5)>>, <<"y", PyInt(2)>>}),
                               Entries({<<"x", PyInt(1)>>, <<"y", PyInt(6)>>})>>)

---------------------------------------------------------------------------
(* C20  Prototype resolution order: _get_proto returns the value of        *)
(* 'key...prototype' when only that meta-option is present; else the       *)
(* element of the existing node that 'key...prototype-key' indexes when    *)
(* only that is present; else the first element of a non-empty existing    *)
(* list or some value of a non-empty existing map; and with both           *)
(* meta-options present it fails with a DefaultError, whatever values the  *)
(* two hold.                                                               *)

(* _get_proto is about to be called for the list or the extensible map at k *)
Resolving(k) ==
    /\ Folding /\ k \in Keys(Layer) /\ k \in Keys(d)
    /\ \/ Kind(Item(d, k)) = "List" /\ Kind(Item(Layer, k)) = "List"
       \/ /\ Kind(Item(d, k)) = "Map" /\ Kind(Item(Layer, k)) = "Map"
          /\ Meta(d, k, "update") = PyStr("extend")

ResolutionAsStated(k) ==
    LET outs == _get_proto(k, d, Item(d, k))
        existing == Item(d, k)
        proto == Meta(d, k, "prototype")
        key == Meta(d, k, "prototype-key")
    IN /\ (proto # Absent /\ key = Absent) => {o.val[1] : o \in Oks(outs)} = {proto}
       /\ (proto = Absent /\ key = PyInt(0) /\ Kind(existing) = "List"
              /\ Len(Payload(existing)) > 0)
             => {o.val[1] : o \in Oks(outs)} = {Payload(existing)[1]}
       /\ (proto = Absent /\ key = Absent /\ Kind(existing) = "List"
              /\ Len(Payload(existing)) > 0)
             => {o.val[1] : o \in Oks(outs)} = {Payload(existing)[1]}
       /\ (proto = Absent /\ key = Absent /\ Kind(existing) = "Map" /\ Keys(existing) # {})
             => /\ Oks(outs) # {}
                /\ \A o \in Oks(outs) : \E j \in Keys(existing) : o.val[1] = Item(existing, j)
       /\ (proto # Absent /\ key # Absent)
             => /\ outs # {}
                /\ \A o \in outs : ~o.ok /\ o.exc = "DefaultError"

PrototypeResolution == \A k \in {"l", "m"} : Resolving(k) => ResolutionAsStated(k)

---------------------------------------------------------------------------
(* C21  An empty collection without a prototype cannot be merged: merging  *)
(* any override list, the empty list included, onto an empty existing list *)
(* that has neither 'key...prototype' nor 'key...prototype-key', and       *)
(* merging any override map onto an empty existing map whose update is     *)
(* 'extend' and that has neither meta-option, fails with the DefaultError  *)
(* 'No prototype/basis given for empty list/map key'.                      *)

NoBasis(k) == DefaultError("No prototype/basis given for empty list/map " \o k)

EmptyWithoutPrototype(k) ==
    /\ Folding /\ Only(k)
    /\ Meta(d, k, "prototype") = Absent /\ Meta(d, k, "prototype-key") = Absent
    /\ \/ Item(d, k) = PyList(<<>>) /\ Kind(Item(Layer, k)) = "List"
       \/ /\ Item(d, k) = EmptyDict /\ Kind(Item(Layer, k)) = "Map"
          /\ Meta(d, k, "update") = PyStr("extend")

EmptyWithoutPrototypeFails ==
    [][\A k \in {"l", "m"} :
          EmptyWithoutPrototype(k)
             => /\ _update_node(Item(d, k), Item(Layer, k), <<"", k>>, d) = {NoBasis(k)}
                /\ Failed /\ exc' = NoBasis(k) /\ IsDefaultError(exc')]_vars

(* the empty override list has failed on the empty list of the default *)
EmptyWithoutPrototypeWitness ==
    /\ pc = "raised" /\ Len(ops) >= 2 /\ Keys(Layer) = {"l"} /\ "l" \in Keys(d)
    /\ Item(d, "l") = PyList(<<>>) /\ Item(Layer, "l") = PyList(<<>>)
    /\ Meta(d, "l", "prototype") = Absent /\ Meta(d, "l", "prototype-key") = Absent
    /\ exc = NoBasis("l")

---------------------------------------------------------------------------
(* C22  Prototype-key failures: when 'key...prototype-key' is the only     *)
(* prototype meta-option and it names nothing in the existing node (a list *)
(* with a key that is not an integer or is out of range, a map that lacks  *)
(* the key), _get_proto fails with a DefaultError whose message names the  *)
(* key, and with no exception of any other type.                           *)

KeyUnresolved(k) ==
    LET key == Meta(d, k, "prototype-key")
        existing == Item(d, k)
    IN /\ key # Absent /\ Meta(d, k, "prototype") = Absent
       /\ \/ /\ Kind(existing) = "List"
             /\ \/ TypeName(key) # "int"
                \/ /\ TypeName(key) = "int"
                   /\ \/ Payload(key) >= Len(Payload(existing))
                      \/ Payload(key) < -Len(Payload(existing))
          \/ /\ Kind(existing) = "Map"
             /\ \/ TypeName(key) # "str"
                \/ TypeName(key) = "str" /\ Payload(key) \notin Keys(existing)

NamesTheKey(e, key) == \E s \in StrOf(key) : Find(e.args[1], s) >= 0

PrototypeKeyFailures ==
    \A k \in {"l", "m"} :
       (Resolving(k) /\ KeyUnresolved(k))
          => LET outs == _get_proto(k, d, Item(d, k))
             IN /\ outs # {}
                /\ \A o \in outs :
                      ~o.ok /\ IsDefaultError(o) /\ NamesTheKey(o, Meta(d, k, "prototype-key"))

---------------------------------------------------------------------------
(* C23  Virtual context: the second component that _get_proto returns for  *)
(* key K holds one entry for each context key K...prototype...rest, under  *)
(* the key prototype...rest and with the same value, and nothing else; the *)
(* merge of a new entry onto the prototype reads it, so that with the list *)
(* prototype [1, 2] and 'K...prototype...update' = 'append' the new entry  *)
(* [-1, -2] becomes [1, 2, -1, -2].                                        *)

VirtualAsStated(k, virt, context) ==
    LET lead == k \o "..." \o "prototype" \o "..."
        formed(c) == Len(c) >= Len(lead) /\ SubSeq(c, 1, Len(lead)) = lead
        rest(c) == SubSeq(c, Len(lead) + 1, Len(c))
    IN /\ \A c \in Keys(context) :
             formed(c) => /\ ("prototype..." \o rest(c)) \in Keys(virt)
                          /\ Item(virt, "prototype..." \o rest(c)) = Item(context, c)
       /\ \A v \in Keys(virt) :
             \E c \in Keys(context) : formed(c) /\ v = "prototype..." \o rest(c)

AppendToPrototype ==
    /\ Only("m") /\ Kind(Item(d, "m")) = "Map" /\ Kind(Item(Layer, "m")) = "Map"
    /\ Meta(d, "m", "update") = PyStr("extend")
    /\ Meta(d, "m", "prototype") = PyList(<<PyInt(1), PyInt(2)>>)
    /\ Meta(d, "m", "prototype...update") = PyStr("append")
    /\ "k" \in Keys(Item(Layer, "m")) /\ "k" \notin Keys(Item(d, "m"))
    /\ Item(Item(Layer, "m"), "k") = PyList(<<PyInt(-1), PyInt(-2)>>)

VirtualContext ==
    [][/\ \A k \in {"l", "m"} :
             Resolving(k) => \A o \in Oks(_get_proto(k, d, Item(d, k))) :
                                VirtualAsStated(k, o.val[2], d)
       /\ (Folded /\ AppendToPrototype)
             => Item(Item(d', "m"), "k")
                   = PyList(<<PyInt(1), PyInt(2), PyInt(-1), PyInt(-2)>>)]_vars

(* the new entry has been appended to the list prototype *)
VirtualContextWitness ==
    /\ pc = "reduce" /\ i >= 1 /\ "m" \in Keys(d)
    /\ Meta(d, "m", "prototype...update") = PyStr("append")
    /\ Kind(Item(d, "m")) = "Map" /\ "k" \in Keys(Item(d, "m"))
    /\ Item(Item(d, "m"), "k") = PyList(<<PyInt(1), PyInt(2), PyInt(-1), PyInt(-2)>>)

---------------------------------------------------------------------------
(* C24  Illegal value kinds, as claimed: when None stands at a node of the *)
(* default that a layer overrides, or is the override value of a node, the *)
(* fold step fails with a DefaultError.                                    *)

NoneMeets(k) ==
    /\ Folding /\ k \in Keys(Layer) /\ k \in Keys(d)
    /\ Item(d, k) = PyNone \/ Item(Layer, k) = PyNone

IllegalKindsAsClaimed ==
    [][NoneMeets("a") => (Failed /\ IsDefaultError(exc'))]_vars

(* C24 as amended: classifying a value of none of the five kinds raises    *)
(* ValueError 'unacceptable type ...', which is neither a DefaultError nor *)
(* an UpdateError, and a node is classified only when a merge reaches it:  *)
(* a None node of the default that no layer names is returned as it is.    *)
(* A Boolean is classified as Boolean and never as Number, so a Boolean    *)
(* and a Number do not match each other without coercion.                  *)

UnacceptableNone == Raise("ValueError", <<"unacceptable type <type 'NoneType'>">>)

IllegalKinds ==
    [][/\ NoneMeets("a") => (Failed /\ exc' = UnacceptableNone /\ ~IsDefaultError(exc'))
       /\ (Folded /\ "a" \in Keys(d) /\ "a" \notin Keys(Layer) /\ Item(d, "a") = PyNone)
             => Item(d', "a") = PyNone
       /\ (Folding /\ Only("a") /\ ~Coercion(d, "a"))
             => LET e == Item(d, "a")
                    n == Item(Layer, "a")
                IN /\ TypeName(e) = "bool" => _find_type(e) = _BOOL /\ _find_type(e) # _NUMBER
                   /\ (TypeName(e) = "bool" /\ TypeName(n) = "bool")
                         => Folded /\ Item(d', "a") = n
                   /\ \/ TypeName(e) = "bool" /\ TypeName(n) \in {"int", "float"}
                      \/ TypeName(e) \in {"int", "float"} /\ TypeName(n) = "bool"
                      => Failed /\ exc' = TypeMismatch(<<"", "a">>, e)]_vars

(* None has been given for a Number of the default and the fold has failed *)
IllegalKindsWitness ==
    /\ pc = "raised" /\ Len(ops) >= 2 /\ "a" \in Keys(Layer) /\ "a" \in Keys(d)
    /\ Item(d, "a") = PyInt(1) /\ Item(Layer, "a") = PyNone
    /\ exc = UnacceptableNone

---------------------------------------------------------------------------
(* C25  Map update values other than 'extend' are indistinguishable: for a *)
(* map whose update meta-option holds any value other than 'extend', every *)
(* override has the outcomes it has when the meta-option is left out       *)
(* (existing keys merged recursively, new keys rejected as unknown         *)
(* options), and no error is raised for the update value itself.           *)

DictWithout(m, k) == PyDict([j \in Keys(m) \ {k} |-> Payload(m)[j]])

OtherMapUpdate(k) ==
    /\ Folding /\ Only(k) /\ Kind(Item(d, k)) = "Map"
    /\ Meta(d, k, "update") \notin {Absent, PyStr("extend")}

MapUpdateIndifferent ==
    [][\A k \in {"m"} :
          OtherMapUpdate(k)
             => LET base == DictWithout(d, k \o "...update")
                    with == Lambda(d, Layer)
                    without == Lambda(base, Layer)
                IN /\ Raised(with) = Raised(without)
                   /\ {Item(o.val, k) : o \in Oks(with)} = {Item(o.val, k) : o \in Oks(without)}
                   /\ \A o \in Raised(with) : o.exc = "UpdateError"
                   /\ Folded => \E o \in Oks(without) : Item(d', k) = Item(o.val, k)
                   /\ Failed => exc' \in Raised(without)
                   /\ (Kind(Item(Layer, k)) = "Map" /\ ~(Keys(Item(Layer, k)) \subseteq Keys(Item(d, k))))
                         => Failed /\ exc'.exc = "UpdateError"
                   /\ Folded \/ Failed]_vars

(* a map whose update is neither 'extend' nor a documented value has been merged *)
MapUpdateIndifferentWitness ==
    /\ pc = "reduce" /\ i >= 1 /\ "m" \in Keys(d)
    /\ Meta(d, "m", "update") = PyStr("append")
    /\ Item(d, "m") # Item(Default, "m")
    /\ Item(Item(d, "m"), "a") = PyInt(9)

---------------------------------------------------------------------------
(* C26  Root meta-options: each fold step merges the layer onto the        *)
(* accumulator with the accumulator as the context and '' as the tag of    *)
(* the root, so the meta-options of the root map are its own keys          *)
(* '...update' and '...prototype': without '...update' = 'extend' a new    *)
(* top-level key is an invalid option, with it the key is added as the     *)
(* merge of its value onto the value of '...prototype', and the root       *)
(* meta-options stay in the accumulator for the next step.                 *)

NewRootKeys == {k \in Keys(Layer) : k \notin Keys(d)}

RootMetaOptions ==
    [][(/\ Folding /\ Kind(Layer) = "Map" /\ \A k \in Keys(Layer) : ~HasSeparator(k)
        /\ \A k \in Keys(Layer) \cap Keys(d) : Kind(Item(Layer, k)) = Kind(Item(d, k)))
          => LET update == Meta(d, "", "update")
                 proto == Meta(d, "", "prototype")
             IN /\ (update # PyStr("extend") /\ Cardinality(NewRootKeys) = 1)
                      => \E k \in NewRootKeys : Failed /\ exc' = InvalidOption(<<"", k>>)
                /\ (update = PyStr("extend") /\ proto # Absent /\ Meta(d, "", "prototype-key") = Absent)
                      => /\ (\A k \in NewRootKeys : Kind(Item(Layer, k)) = Kind(proto))
                               => /\ Folded
                                  /\ Keys(d') = Keys(d) \cup Keys(Layer)
                                  /\ \A k \in Keys(Layer) : Item(d', k) = Item(Layer, k)
                                  /\ Meta(d', "", "update") = update
                                  /\ Meta(d', "", "prototype") = proto
                         /\ \A k \in NewRootKeys :
                               (Kind(Item(Layer, k)) # Kind(proto) /\ Cardinality(NewRootKeys) = 1)
                                  => Failed /\ exc' = TypeMismatch(<<"", k, "prototype">>, proto)]_vars

(* a top-level key that the default lacks has been added under '...update' *)
RootMetaOptionsWitness ==
    /\ pc = "reduce" /\ i >= 1
    /\ Meta(d, "", "update") = PyStr("extend") /\ Meta(d, "", "prototype") = PyInt(0)
    /\ "z" \in Keys(d) /\ "z" \notin Keys(Default)
    /\ Item(d, "z") = PyInt(5)

---------------------------------------------------------------------------
(* C27  Map merge frame: in the result of every successful map merge, each *)
(* key of the existing map that the override does not name holds the       *)
(* identical value, no key of the existing map is missing, and the keys    *)
(* are exactly those of the existing map together with those of the        *)
(* override; the same holds for each map merged below it.                  *)

RECURSIVE FrameKept(_, _, _)
FrameKept(e, n, r) ==
    /\ Kind(r) = "Map"
    /\ Keys(r) = Keys(e) \cup Keys(n)
    /\ \A k \in Keys(e) \ Keys(n) : Item(r, k) = Item(e, k)
    /\ \A k \in Keys(e) \cap Keys(n) :
          (Kind(Item(e, k)) = "Map" /\ Kind(Item(n, k)) = "Map")
             => FrameKept(Item(e, k), Item(n, k), Item(r, k))

MapMergeFrame ==
    [][Folded => /\ FrameKept(d, Layer, d')
                 /\ \A o \in Oks(Lambda(d, Layer)) : FrameKept(d, Layer, o.val)]_vars

(* an extensible map has gained a key and kept the one the layer left out *)
MapMergeFrameWitness ==
    /\ pc = "reduce" /\ i = 1 /\ "m" \in Keys(d) /\ Kind(Item(d, "m")) = "Map"
    /\ Keys(Item(Default, "m")) = {"a", "b"}
    /\ Keys(ops[Len(ops) - 1]) = {"m"}
    /\ Keys(Item(ops[Len(ops) - 1], "m")) = {"a", "c"}
    /\ Keys(Item(d, "m")) = {"a", "b", "c"}
    /\ Item(Item(d, "m"), "b") = Item(Item(Default, "m"), "b")
    /\ Keys(d) = Keys(Default)

---------------------------------------------------------------------------
(* C28  The fallback prototype comes from the accumulator, not from the    *)
(* default: for a list with neither 'prototype' nor 'prototype-key', each  *)
(* fold step takes the prototype from the first element of the list as the *)
(* layers before it have left it.  A lower layer may overwrite such a list *)
(* with the empty list, and then every higher layer that overrides the     *)
(* list fails with the DefaultError 'No prototype/basis given for empty    *)
(* list/map', although the list of the default was not empty.              *)

FallbackList(k) ==
    /\ Folding /\ Only(k) /\ Kind(Item(d, k)) = "List" /\ Kind(Item(Layer, k)) = "List"
    /\ Meta(d, k, "prototype") = Absent /\ Meta(d, k, "prototype-key") = Absent
    /\ Kind(Item(Default, k)) = "List" /\ Len(Payload(Item(Default, k))) > 0

FallbackFromAccumulator ==
    [][\A k \in {"l"} :
          FallbackList(k)
             => /\ Len(ExistingList(k)) > 0
                   => \A o \in _get_proto(k, d, Item(d, k)) :
                         o.ok /\ o.val[1] = ExistingList(k)[1]
                /\ (Len(ExistingList(k)) > 0 /\ Item(Layer, k) = PyList(<<>>)
                      /\ Meta(d, k, "update") \in {Absent, PyStr("overwrite")})
                      => Folded /\ Item(d', k) = PyList(<<>>)
                /\ Len(ExistingList(k)) = 0
                      => /\ i >= 1
                         /\ Failed /\ exc' = NoBasis(k) /\ IsDefaultError(exc')]_vars

(* the higher layer has failed on the list that the lower layer had emptied *)
FallbackFromAccumulatorWitness ==
    /\ pc = "raised" /\ Len(ops) = 3 /\ i = 1
    /\ Keys(Default) = {"l"} /\ Item(Default, "l") = PyList(<<PyInt(1), PyInt(2)>>)
    /\ Low = Entries({<<"l", PyList(<<>>)>>})
    /\ High = Entries({<<"l", PyList(<<PyInt(3)>>)>>})
    /\ Item(d, "l") = PyList(<<>>)
    /\ exc = NoBasis("l")

---------------------------------------------------------------------------
(* C29  Prototype meta-options apply only at creation: an entry k that a   *)
(* lower layer added to an extensible map is, for every later layer, an    *)
(* existing key whose meta-options are the siblings 'k...update' and the   *)
(* like in the accumulated map.  The meta-options of the prototype, such   *)
(* as 'prototype...update' = 'append', are not read again: a later         *)
(* override of the list at k is combined by the default strategy and       *)
(* replaces the list.                                                      *)

(* the layer overrides, by a list, the list at k that an earlier layer added *)
AddedEarlier(k) ==
    /\ Folding /\ i >= 1 /\ Only("m")
    /\ Kind(Item(d, "m")) = "Map" /\ Kind(Item(Layer, "m")) = "Map"
    /\ Meta(d, "m", "update") = PyStr("extend")
    /\ k \in Keys(Item(d, "m")) /\ k \in Keys(Item(Layer, "m"))
    /\ k \notin Keys(Item(Default, "m"))
    /\ AtomList(Item(Item(d, "m"), k)) /\ AtomList(Item(Item(Layer, "m"), k))
    /\ Len(Payload(Item(Item(d, "m"), k))) > 0
    /\ \A t \in {"update", "prototype", "prototype-key", "coercion"} :
          Meta(Item(d, "m"), k, t) = Absent

SameKindAsFirst(e, n) ==
    \A j \in 1..Len(Payload(n)) : Kind(Payload(n)[j]) = Kind(Payload(e)[1])

PrototypeOnlyAtCreation ==
    [][/\ \A k \in {"k", "j"} :
             AddedEarlier(k)
                => /\ Folded => /\ Item(Item(d', "m"), k) = Item(Item(Layer, "m"), k)
                                /\ SameKindAsFirst(Item(Item(d, "m"), k), Item(Item(Layer, "m"), k))
                   /\ ~SameKindAsFirst(Item(Item(d, "m"), k), Item(Item(Layer, "m"), k))
                         => Failed /\ exc'.exc = "UpdateError"
       /\ (/\ Folding /\ Only("m") /\ Kind(Item(Layer, "m")) = "Map"
           /\ Keys(Item(Layer, "m")) # {}
           /\ \A k \in Keys(Item(Layer, "m")) :
                 /\ k \in {"k", "j"} /\ AddedEarlier(k)
                 /\ SameKindAsFirst(Item(Item(d, "m"), k), Item(Item(Layer, "m"), k)))
             => Folded]_vars

(* the list added by appending to the prototype has been replaced by the   *)
(* same override given again                                               *)
PrototypeOnlyAtCreationWitness ==
    /\ pc = "reduce" /\ i = 2 /\ Len(ops) = 3
    /\ Low = High /\ Keys(High) = {"m"}
    /\ Meta(d, "m", "prototype...update") = PyStr("append")
    /\ Meta(d, "m", "prototype") = PyList(<<PyInt(1), PyInt(2)>>)
    /\ Kind(Item(High, "m")) = "Map" /\ "k" \in Keys(Item(High, "m"))
    /\ Item(Item(High, "m"), "k") = PyList(<<PyInt(-1), PyInt(-2)>>)
    /\ Item(Item(d, "m"), "k") = PyList(<<PyInt(-1), PyInt(-2)>>)

=============================================================================
